---- MODULE Spec2Model ----
(***************************************************************************)
(* Chart runtime, basic charts and the shared cross-filter of the viewer.  *)
(*                                                                         *)
(* One spec chart (Chart.svelte + ChartRuntime), one count plot, one list  *)
(* count plot and one SQL-predicates chart share a single cross-filter     *)
(* selection.  Handlers are atomic (single-threaded cooperative            *)
(* scheduling); the suspension points are the awaited statistics of        *)
(* setSpec, the in-flight layer queries and the pending reactive effects.  *)
(***************************************************************************)
EXTENDS Integers, Sequences, FiniteSets, TLC

VARIABLES
    spec,        \* ChartRuntime.spec: the active spec object, or None
    cleanupFn,   \* ChartRuntime.cleanupFn: the build whose cleanup is installed, 0 = undefined
    outputs,     \* ChartRuntime.outputs store
    selections,  \* ChartRuntime.selections store: the build whose SelectionOutputs it holds, 0 = undefined
    state,       \* ChartRuntime.state store
    chartState,  \* the `state` prop of Chart.svelte (host-owned chart state)
    stateDirty,  \* the $effect.pre that copies chartState into runtime.state is scheduled
    mounted,     \* Chart.svelte is mounted (onDestroy has not run)
    pending,     \* setSpec calls suspended at `await computeAllFieldStats`
    nCalls,      \* number of setSpec calls that passed the deep-equality guard
    nResults,    \* number of query results delivered to the spec chart
    builds,      \* one record per completed buildChart
    clients,     \* every Mosaic client ever created by makeClient
    inflight,    \* clients with a query issued and its result not yet delivered
    filter,      \* clauses of the shared cross-filter selection
    bphase,      \* basic charts: "absent", "loading", "ready", "destroyed"
    bsel,        \* basic charts: the chart's selection (local selection state)
    bdirty,      \* basic charts: the selection-sync effect is scheduled
    bsource,     \* basic charts: number of the current clause source object
    bclients,    \* basic charts: <<clientBase, clientSelection>>, 0 = none
    predState,   \* predicates chart: chartState.selectedPredicates held by the host
    cache,       \* ChartContextCache.contents: per field-stats key, the state of the cached promise
    issued,      \* history: number of computeFieldStats invocations per field-stats key
    fnIn,        \* pure functions: the arguments of the call under check
    fnOut,       \* pure functions: the value returned, or Pending
    writes,      \* history: clauses passed to filter.update by the last handler
    destroyLog,  \* history: clients destroyed by the last handler, with the filter seen then
    lastOp       \* history: the last handler that ran

vars == <<spec, cleanupFn, outputs, selections, state, chartState, stateDirty, mounted,
          pending, nCalls, nResults, builds, clients, inflight, filter,
          bphase, bsel, bdirty, bsource, bclients, predState, cache, issued, fnIn, fnOut,
          writes, destroyLog, lastOp>>

\* The variables of the pure-function checks.
fnVars == <<fnIn, fnOut>>

\* Everything a call of a pure helper leaves alone.
objVars == <<spec, cleanupFn, outputs, selections, state, chartState, stateDirty, mounted,
             pending, nCalls, nResults, builds, clients, inflight, filter,
             bphase, bsel, bdirty, bsource, bclients, predState, cache, issued,
             writes, destroyLog, lastOp>>

rtVars == <<spec, cleanupFn, outputs, selections, state, chartState, stateDirty, mounted,
            pending, nCalls, nResults, builds>>

basicVars == <<bphase, bsel, bdirty, bsource, bclients, predState>>

----------------------------------------------------------------------------
(* Bounds *)

\* setSpec calls that pass the deep-equality guard
MaxCalls == 3

\* query results delivered to the layers of the spec chart
MaxResults == 2

\* initialisations of one basic chart (each creates a new clause source)
MaxInits == 2

----------------------------------------------------------------------------
(* Values *)

None == "none"

\* Spec objects handed to setSpec by the host.  o1 and o3 are distinct
\* objects with deep-equal content.
SpecObjects == {"o1", "o2", "o3"}

ContentOf == [o \in SpecObjects |-> IF o = "o2" THEN "B" ELSE "A"]

\* A layer: `select` = it has select entries (a query client is made),
\* `filter` = it consumes the shared filter.
QueryLayer(f) == [select |-> TRUE, filter |-> f]
ConstLayer == [select |-> FALSE, filter |-> FALSE]

\* Content A: two count() layers, one filter-participating and one not, one
\* named selection.  Content B: a filtered layer and an all-constant layer,
\* two named selections.
Content ==
    [c \in {"A", "B"} |->
        IF c = "A"
        THEN [layers |-> <<QueryLayer(TRUE), QueryLayer(FALSE)>>, selection |-> <<"a">>]
        ELSE [layers |-> <<QueryLayer(TRUE), ConstLayer>>, selection |-> <<"a", "b">>]]

SelKeys == {"a", "b"}

\* Field-stats keys (source and field).  Content A encodes field f1 of the
\* table, content B the fields f1 and f2 of the same table.
StatKeys == {"f1", "f2"}
StatKeysOf == [c \in {"A", "B"} |-> IF c = "A" THEN {"f1"} ELSE {"f1", "f2"}]

\* Brush values of a named selection
BrushValues == {"v1"}

\* Query results
Data == {"d1"}

\* Values shown by a count plot
Items == {"x", "y"}

\* Predicates offered by the predicates chart (spec.items)
PredItems == {"p"}

BasicCharts == {"cp", "cl", "pr"}
CountCharts == {"cp", "cl"}

EmptyState == [k \in SelKeys |-> None]
UndefinedStore == [defined |-> FALSE, val |-> EmptyState]
UndefinedOutputs == [defined |-> FALSE, build |-> 0, layers |-> <<>>]
NoClause == [set |-> FALSE, sel |-> <<0, None>>, value |-> None]

NullValue == [isNull |-> TRUE, items |-> <<>>]
NullPredicate == [kind |-> "null", args |-> <<>>]

RuntimeSource == <<"spec", 0>>

SeqToSet(s) == {s[i] : i \in 1..Len(s)}

----------------------------------------------------------------------------
(* The program state as one record, threaded through the statements of a   *)
(* handler.  The history of filter writes and client destructions starts   *)
(* empty at the beginning of every handler.                                *)

Cur ==
    [spec |-> spec, cleanupFn |-> cleanupFn, outputs |-> outputs, selections |-> selections,
     state |-> state, chartState |-> chartState, stateDirty |-> stateDirty, mounted |-> mounted,
     pending |-> pending, nCalls |-> nCalls, nResults |-> nResults, builds |-> builds, clients |-> clients,
     inflight |-> inflight, filter |-> filter,
     bphase |-> bphase, bsel |-> bsel, bdirty |-> bdirty, bsource |-> bsource,
     bclients |-> bclients, predState |-> predState, cache |-> cache, issued |-> issued,
     writes |-> <<>>, destroyLog |-> <<>>]

Commit(W) ==
    /\ spec' = W.spec
    /\ cleanupFn' = W.cleanupFn
    /\ outputs' = W.outputs
    /\ selections' = W.selections
    /\ state' = W.state
    /\ chartState' = W.chartState
    /\ stateDirty' = W.stateDirty
    /\ mounted' = W.mounted
    /\ pending' = W.pending
    /\ nCalls' = W.nCalls
    /\ nResults' = W.nResults
    /\ builds' = W.builds
    /\ clients' = W.clients
    /\ inflight' = W.inflight
    /\ filter' = W.filter
    /\ bphase' = W.bphase
    /\ bsel' = W.bsel
    /\ bdirty' = W.bdirty
    /\ bsource' = W.bsource
    /\ bclients' = W.bclients
    /\ predState' = W.predState
    /\ cache' = W.cache
    /\ issued' = W.issued
    /\ UNCHANGED fnVars
    /\ writes' = W.writes
    /\ destroyLog' = W.destroyLog

----------------------------------------------------------------------------
(* The shared cross-filter (Mosaic Selection.crossfilter) and the clients  *)

\* Selection.update: the clause replaces the clause of the same source and
\* is kept only when its predicate is non-null.
Resolve(clauseList, clause) ==
    LET filtered == SelectSeq(clauseList, LAMBDA c : c.source # clause.source)
    IN IF clause.predicate # NullPredicate THEN Append(filtered, clause) ELSE filtered

\* Clients whose query is re-issued when the filter is updated: the live
\* clients bound to the filter, except the clients of the updated clause.
Requeried(cl, clause) ==
    {i \in 1..Len(cl) : cl[i].alive /\ cl[i].hasFilter /\ i \notin clause.clients}

FilterUpdate(W, clause) ==
    [W EXCEPT !.filter = Resolve(@, clause),
              !.inflight = @ \cup Requeried(W.clients, clause),
              !.writes = Append(@, clause)]

\* makeClient: the client is connected and its first query is issued.
MakeClient(W, chart, hasFilter, b, layer) ==
    [W EXCEPT !.clients = Append(@, [chart |-> chart, hasFilter |-> hasFilter, alive |-> TRUE,
                                      build |-> b, layer |-> layer]),
              !.inflight = @ \cup {Len(W.clients) + 1}]

\* client.destroy(): the client is disconnected; a query already issued is
\* not cancelled.
DestroyClient(W, id) ==
    [W EXCEPT !.clients[id].alive = FALSE,
              !.destroyLog = Append(@, [client |-> id,
                                        referenced |-> \E j \in 1..Len(W.filter) :
                                                          id \in W.filter[j].clients])]

RECURSIVE DestroyClients(_, _, _)
DestroyClients(W, ids, i) ==
    IF i > Len(ids) THEN W
    ELSE DestroyClients(IF ids[i] # 0 THEN DestroyClient(W, ids[i]) ELSE W, ids, i + 1)

----------------------------------------------------------------------------
(* ChartRuntime *)

deepEquals(a, b) == a # None /\ b # None /\ ContentOf[a] = ContentOf[b]

BuildClients(build) == {build.clients[i] : i \in 1..Len(build.clients)} \ {0}

\* SelectionOutputs.clause: undefined for an empty value, else the value
\* and the predicate derived from it.
SelectionClause(key, value) ==
    IF value = None
    THEN [defined |-> FALSE, value |-> NullValue, predicate |-> NullPredicate]
    ELSE [defined |-> TRUE, value |-> [isNull |-> FALSE, items |-> <<value>>],
          predicate |-> [kind |-> "and", args |-> <<key, value>>]]

\* Mutation: every build writes under a source of its own.
SyncClausePerBuild(W, b, key, value) ==
    LET clause == SelectionClause(key, value)
    IN [source |-> <<"spec", b>>, chart |-> "spec", sel |-> key,
        clients |-> BuildClients(W.builds[b]),
        predicate |-> IF clause.defined THEN clause.predicate ELSE NullPredicate,
        value |-> IF clause.defined THEN clause.value ELSE NullValue]

\* The clause a filter-sync subscription writes for one selection.
SyncClause(W, b, key, value) ==
    LET clause == SelectionClause(key, value)
    IN [source |-> RuntimeSource, chart |-> "spec", sel |-> key,
        clients |-> BuildClients(W.builds[b]),
        predicate |-> IF clause.defined THEN clause.predicate ELSE NullPredicate,
        value |-> IF clause.defined THEN clause.value ELSE NullValue]

\* The SelectionOutputs currently in the selections store.
SelectionKeys(W) ==
    IF W.selections = 0 THEN <<>> ELSE Content[ContentOf[W.builds[W.selections].spec]].selection

\* The callback of derived([selections, state]).subscribe of build b.
RECURSIVE SyncLoop(_, _, _, _)
SyncLoop(W, b, keys, i) ==
    IF i > Len(keys) THEN W
    ELSE LET key == keys[i]
             value == IF W.state.defined THEN W.state.val[key] ELSE None
             selObj == <<W.selections, key>>
             cur == W.builds[b].currentClause
         IN IF cur.set /\ cur.sel = selObj /\ cur.value = value
            THEN SyncLoop(W, b, keys, i + 1)
            ELSE SyncLoop(FilterUpdate([W EXCEPT !.builds[b].currentClause =
                                                    [set |-> TRUE, sel |-> selObj, value |-> value]],
                                       SyncClause(W, b, key, value)),
                          b, keys, i + 1)

SyncFilter(W, b) == SyncLoop(W, b, SelectionKeys(W), 1)

\* A store notifies its subscribers in subscription order.
RECURSIVE NotifyFrom(_, _)
NotifyFrom(W, b) ==
    IF b > Len(W.builds) THEN W
    ELSE NotifyFrom(IF W.builds[b].subscribed THEN SyncFilter(W, b) ELSE W, b + 1)

Notify(W) == NotifyFrom(W, 1)

\* writable.set: subscribers run unless undefined is replaced by undefined.
StateSet(W, new) ==
    IF new.defined \/ W.state.defined
    THEN Notify([W EXCEPT !.state = new])
    ELSE W

SelectionsSet(W, new) ==
    IF new # 0 \/ W.selections # 0
    THEN Notify([W EXCEPT !.selections = new])
    ELSE W

\* source.reset of the runtime: Chart.svelte replaces the chart state by {};
\* the state effect is scheduled when the chart state changes.
SourceReset(W) ==
    IF W.chartState = EmptyState
    THEN W
    ELSE [W EXCEPT !.chartState = EmptyState, !.stateDirty = TRUE]

\* Mutation: the clients are destroyed before the state is cleared.
CleanupBuildReleaseFirst(W, b) ==
    LET W1 == DestroyClients(W, W.builds[b].clients, 1)
        W2 == SourceReset(W1)
        W3 == StateSet(W2, UndefinedStore)
    IN [W3 EXCEPT !.builds[b].subscribed = FALSE]

\* Mutation: the subscription is removed without clearing the state first.
CleanupBuildNoClear(W, b) ==
    LET W1 == SourceReset(W)
        W3 == [W1 EXCEPT !.builds[b].subscribed = FALSE]
    IN DestroyClients(W3, W3.builds[b].clients, 1)

\* The cleanup function installed by the build b.
CleanupBuild(W, b) ==
    LET W1 == SourceReset(W)
        W2 == StateSet(W1, UndefinedStore)
        W3 == [W2 EXCEPT !.builds[b].subscribed = FALSE]
    IN DestroyClients(W3, W3.builds[b].clients, 1)

cleanup(W) ==
    LET W1 == IF W.cleanupFn # 0 THEN CleanupBuild(W, W.cleanupFn) ELSE W
    IN [W1 EXCEPT !.cleanupFn = 0, !.spec = None]

\* chartOutputs: the layers that have produced an output.
chartOutputs(b, layerOut) ==
    [defined |-> TRUE, build |-> b, layers |-> SelectSeq(layerOut, LAMBDA x : x # None)]

\* buildLayer for every layer of the spec: a client for a layer with select
\* entries, a synthesized single-row table otherwise.
RECURSIVE BuildLayers(_, _, _, _)
BuildLayers(W, b, layers, i) ==
    IF i > Len(layers) THEN W
    ELSE LET W1 == IF layers[i].select
                   THEN [MakeClient(W, "spec", layers[i].filter, b, i) EXCEPT
                            !.builds[b].clients = Append(@, Len(W.clients) + 1),
                            !.builds[b].layerOut = Append(@, None)]
                   ELSE [W EXCEPT !.builds[b].clients = Append(@, 0),
                                  !.builds[b].layerOut = Append(@, "const")]
         IN BuildLayers(W1, b, layers, i + 1)

buildChart(W, obj) ==
    LET b == Len(W.builds) + 1
        W1 == [W EXCEPT !.builds = Append(@, [spec |-> obj, clients |-> <<>>, layerOut |-> <<>>,
                                              subscribed |-> FALSE, currentClause |-> NoClause])]
        W2 == BuildLayers(W1, b, Content[ContentOf[obj]].layers, 1)
        W3 == [W2 EXCEPT !.outputs = chartOutputs(b, W2.builds[b].layerOut)]
    IN SelectionsSet(W3, b)

\* setSpec after `await computeAllFieldStats`.
SetSpecResume(W, call) ==
    IF W.spec # call.spec
    THEN W
    ELSE LET W1 == buildChart(W, call.spec)
             b == Len(W1.builds)
             W2 == SyncFilter([W1 EXCEPT !.builds[b].subscribed = TRUE], b)
         IN [W2 EXCEPT !.cleanupFn = b]

\* Mutation: setSpec without the deep-equality guard (identity only).
SetSpecStartNoGuard(W, obj) ==
    IF obj = W.spec
    THEN W
    ELSE LET W1 == cleanup(W)
         IN [W1 EXCEPT !.spec = obj,
                       !.nCalls = @ + 1,
                       !.pending = {[p EXCEPT !.superseded = @ \/ ~deepEquals(obj, p.spec)] : p \in @}
                                   \cup {[id |-> W.nCalls + 1, spec |-> obj, superseded |-> FALSE]}]

\* setSpec up to `await computeAllFieldStats`.
SetSpecStart(W, obj) ==
    IF deepEquals(obj, W.spec)
    THEN W
    ELSE LET W1 == cleanup(W)
         IN [W1 EXCEPT !.spec = obj,
                       !.nCalls = @ + 1,
                       !.pending = {[p EXCEPT !.superseded = @ \/ ~deepEquals(obj, p.spec)] : p \in @}
                                   \cup {[id |-> W.nCalls + 1, spec |-> obj, superseded |-> FALSE]}]

\* ChartContextCache.value: the cached promise if the key is present, else
\* the promise returned by a new computeFieldStats call, which is stored.
CacheValue(W, key) ==
    IF W.cache[key] # "absent"
    THEN W
    ELSE [W EXCEPT !.cache[key] = "pending", !.issued[key] = @ + 1]

\* computeAllFieldStats up to its await: one cache lookup per field.
RECURSIVE computeAllFieldStats(_, _)
computeAllFieldStats(W, keys) ==
    IF keys = {} THEN W
    ELSE LET key == CHOOSE k \in keys : TRUE
         IN computeAllFieldStats(CacheValue(W, key), keys \ {key})

\* setSpec up to the await, with the statistics requested through the cache.
SetSpecRequest(W, obj) ==
    IF deepEquals(obj, W.spec)
    THEN W
    ELSE computeAllFieldStats(SetSpecStart(W, obj), StatKeysOf[ContentOf[obj]])

destroy(W) ==
    LET W1 == cleanup(W)
        W2 == [W1 EXCEPT !.outputs = UndefinedOutputs]
        W3 == StateSet(W2, UndefinedStore)
    IN SelectionsSet(W3, 0)

\* queryResult of a layer's client, and the derived(allOutputs)
\* subscription of buildChart that republishes the chart outputs.
queryResult(W, id, d) ==
    LET b == W.clients[id].build
        W1 == [W EXCEPT !.builds[b].layerOut[W.clients[id].layer] = d]
    IN [W1 EXCEPT !.outputs = chartOutputs(b, W1.builds[b].layerOut)]

----------------------------------------------------------------------------
(* Basic charts: count plot "cp", list count plot "cl", predicates "pr" *)

EmptySelection == [isNull |-> FALSE, items |-> <<>>]

BasicSource(W, c) == <<c, W.bsource[c]>>

\* AggregateInfo.predicate of an array of values (count plot) and
\* makePredicate (list count plot): the disjunction of one predicate per
\* selected value.
makePredicate(items) == [kind |-> "or", args |-> items]

\* The clause built by the selection-sync effect of a count plot.
CountClause(W, c) ==
    [source |-> BasicSource(W, c), chart |-> c, sel |-> "selection",
     clients |-> {W.bclients[c][2]},
     predicate |-> IF ~W.bsel[c].isNull THEN makePredicate(W.bsel[c].items) ELSE NullPredicate,
     value |-> IF ~W.bsel[c].isNull THEN W.bsel[c] ELSE NullValue]

\* The clause built by the selection-sync effect of the predicates chart.
PredClause(W) ==
    [source |-> BasicSource(W, "pr"), chart |-> "pr", sel |-> "selectedPredicates",
     clients |-> {W.bclients["pr"][2]},
     predicate |-> IF Len(W.bsel["pr"].items) = 0 THEN NullPredicate
                   ELSE [kind |-> "verbatim", args |-> W.bsel["pr"].items],
     value |-> IF Len(W.bsel["pr"].items) = 0 THEN NullValue ELSE W.bsel["pr"]]

\* The cleared clause written by the teardown of a count plot.
ClearedClause(W, c) ==
    [source |-> BasicSource(W, c), chart |-> c, sel |-> "selection",
     clients |-> {W.bclients[c][2]}, predicate |-> NullPredicate, value |-> NullValue]

\* The effect of initializeClient that runs once the statistics are known:
\* two clients, a new source, and the first run of the sync effect.
CountSetup(W, c) ==
    LET W1 == MakeClient(W, c, FALSE, 0, 0)
        W2 == MakeClient(W1, c, TRUE, 0, 0)
        W3 == [W2 EXCEPT !.bclients[c] = <<Len(W.clients) + 1, Len(W.clients) + 2>>,
                         !.bsource[c] = @ + 1,
                         !.bphase[c] = "ready",
                         !.bdirty[c] = FALSE]
    IN FilterUpdate(W3, CountClause(W3, c))

\* The teardown returned by that effect.
CountTeardownFn(W, c) ==
    LET W1 == DestroyClient(W, W.bclients[c][1])
        W2 == DestroyClient(W1, W.bclients[c][2])
    IN FilterUpdate(W2, ClearedClause(W2, c))

\* The Mosaic-client effect of the predicates chart and its nested sync effect.
PredSetup(W) ==
    LET W1 == MakeClient(W, "pr", TRUE, 0, 0)
        W2 == [W1 EXCEPT !.bclients["pr"] = <<0, Len(W.clients) + 1>>,
                         !.bsource["pr"] = @ + 1,
                         !.bphase["pr"] = "ready",
                         !.bdirty["pr"] = FALSE]
    IN FilterUpdate(W2, PredClause(W2))

\* The teardown returned by the Mosaic-client effect of the predicates chart.
PredTeardownFn(W) == DestroyClient(W, W.bclients["pr"][2])

isSame(a, b) == a = b

Exists(items, value) == \E i \in 1..Len(items) : isSame(items[i], value)

\* Mutation: a shift-click adds the value whether or not it is selected.
toggleSelectionAlwaysAdd(selection, value, shift) ==
    IF selection.isNull \/ Len(selection.items) = 0
    THEN [isNull |-> FALSE, items |-> <<value>>]
    ELSE IF shift
         THEN [isNull |-> FALSE, items |-> Append(selection.items, value)]
         ELSE IF Exists(selection.items, value)
              THEN NullValue
              ELSE [isNull |-> FALSE, items |-> <<value>>]

\* toggleSelection of the count plots: the next selection.
toggleSelection(selection, value, shift) ==
    IF selection.isNull \/ Len(selection.items) = 0
    THEN [isNull |-> FALSE, items |-> <<value>>]
    ELSE IF shift
         THEN IF Exists(selection.items, value)
              THEN [isNull |-> FALSE,
                    items |-> SelectSeq(selection.items, LAMBDA x : ~isSame(x, value))]
              ELSE [isNull |-> FALSE, items |-> Append(selection.items, value)]
         ELSE IF Exists(selection.items, value)
              THEN NullValue
              ELSE [isNull |-> FALSE, items |-> <<value>>]

\* The click handler of a predicates item: the next selectedPredicates.
PredClick(selected, value, shift) ==
    IF shift
    THEN IF Exists(selected.items, value)
         THEN [isNull |-> FALSE, items |-> SelectSeq(selected.items, LAMBDA x : x # value)]
         ELSE [isNull |-> FALSE, items |-> Append(selected.items, value)]
    ELSE IF Exists(selected.items, value)
         THEN EmptySelection
         ELSE [isNull |-> FALSE, items |-> <<value>>]

\* source.reset of the predicates chart: onStateChange({selectedPredicates: []}).
\* The host merges the update into the chart state it holds; when the merge
\* changes that state, the chart's state prop changes and the derived
\* selectedPredicates, which a click overrides locally, is re-evaluated.
PredReset(W) ==
    IF W.predState = EmptySelection
    THEN W
    ELSE [W EXCEPT !.predState = EmptySelection,
                   !.bsel["pr"] = EmptySelection,
                   !.bdirty["pr"] = TRUE]

\* source.reset of a count plot: onStateChange clears the selection held by
\* the host, of which the chart's selection is derived.
CountReset(W, c) ==
    IF W.bsel[c] = NullValue
    THEN W
    ELSE [W EXCEPT !.bsel[c] = NullValue, !.bdirty[c] = TRUE]

\* source.reset() of a clause source.
ResetSource(W, source) ==
    LET c == source[1]
    IN IF c = "spec" THEN SourceReset(W)
       ELSE IF c = "pr" THEN PredReset(W)
       ELSE CountReset(W, c)

\* resetFilter: over the clauses held when the action starts.
RECURSIVE resetFilter(_, _, _)
resetFilter(W, items, i) ==
    IF i > Len(items) THEN W
    ELSE LET W1 == ResetSource(W, items[i].source)
             W2 == FilterUpdate(W1, [items[i] EXCEPT !.value = NullValue,
                                                     !.predicate = NullPredicate])
         IN resetFilter(W2, items, i + 1)

----------------------------------------------------------------------------
(* Initial states *)

\* The last handler: its name, the chart it belongs to, its argument (a
\* spec object, a selection key or a clicked value), a number and a flag.
Op(name, chart, arg, n, flag) ==
    [name |-> name, chart |-> chart, arg |-> arg, n |-> n, flag |-> flag]

\* Everything but the call under check of the pure helpers.
InitObjects ==
    /\ spec = None
    /\ cleanupFn = 0
    /\ outputs = UndefinedOutputs
    /\ selections = 0
    /\ state = UndefinedStore
    /\ chartState = EmptyState
    /\ pending = {}
    /\ nCalls = 0
    /\ nResults = 0
    /\ builds = <<>>
    /\ clients = <<>>
    /\ inflight = {}
    /\ filter = <<>>
    /\ bsel = [c \in BasicCharts |-> IF c = "pr" THEN EmptySelection ELSE NullValue]
    /\ bdirty = [c \in BasicCharts |-> FALSE]
    /\ bsource = [c \in BasicCharts |-> 0]
    /\ bclients = [c \in BasicCharts |-> <<0, 0>>]
    /\ predState = NullValue
    /\ cache = [k \in StatKeys |-> "absent"]
    /\ issued = [k \in StatKeys |-> 0]
    /\ writes = <<>>
    /\ destroyLog = <<>>
    /\ lastOp = Op("init", None, None, 0, FALSE)

InitCommon ==
    /\ InitObjects
    /\ fnIn = <<>>
    /\ fnOut = <<>>

\* No chart is constructed; a pure helper is about to be called with one of
\* `inputs`.
InitCall(inputs) ==
    /\ InitObjects
    /\ mounted = FALSE
    /\ stateDirty = FALSE
    /\ bphase = [c \in BasicCharts |-> "absent"]
    /\ fnIn \in inputs
    /\ fnOut = <<>>

\* A spec chart has been constructed; its effects have not run yet.
Init ==
    /\ InitCommon
    /\ mounted = TRUE
    /\ stateDirty = TRUE
    /\ bphase = [c \in BasicCharts |-> "absent"]

\* A spec chart and a predicates chart have been constructed; their
\* effects have not run yet.
InitReset ==
    /\ InitCommon
    /\ mounted = TRUE
    /\ stateDirty = TRUE
    /\ bphase = [c \in BasicCharts |-> IF c = "pr" THEN "loading" ELSE "absent"]

\* A count plot or a list count plot, and a predicates chart, have been
\* constructed; their effects have not run yet.
InitBasic ==
    /\ InitCommon
    /\ mounted = FALSE
    /\ stateDirty = FALSE
    /\ \E count \in CountCharts :
          bphase = [c \in BasicCharts |-> IF c \in {count, "pr"} THEN "loading" ELSE "absent"]

\* A scheduled effect has not run yet.  Effects are flushed before the next
\* user event or asynchronous completion is handled.
EffectPending ==
    \/ mounted /\ stateDirty
    \/ \E c \in BasicCharts : bphase[c] = "ready" /\ bdirty[c]

\* The handlers that re-run a chart's sync effect (one reactive pass).
SyncOps == {"stateSet", "countSync", "predSync"}

\* Only sync effects have run since the last resetFilter.
AfterReset == lastOp.name = "resetFilter" \/ (lastOp.name \in SyncOps /\ lastOp.flag)

----------------------------------------------------------------------------
(* Actions of the spec chart *)

\* Chart.svelte: $effect.pre(() => runtime.setSpec(spec)), up to the await.
SetSpec(o) ==
    /\ mounted
    /\ deepEquals(o, spec) \/ nCalls < MaxCalls
    /\ Commit(SetSpecStart(Cur, o))
    /\ lastOp' = Op("setSpec", "spec", o, 0, deepEquals(o, spec))

\* The statistics of a suspended setSpec call arrive.
StatsDone(p) ==
    /\ ~EffectPending
    /\ p \in pending
    /\ Commit(SetSpecResume([Cur EXCEPT !.pending = @ \ {p}], p))
    /\ lastOp' = Op("statsDone", "spec", p.spec, p.id, p.superseded)

\* Chart.svelte: $effect.pre(() => runtime.state.set(chartState)).
SyncState ==
    /\ mounted
    /\ stateDirty
    /\ Commit(StateSet([Cur EXCEPT !.stateDirty = FALSE],
                       [defined |-> TRUE, val |-> chartState]))
    /\ lastOp' = Op("stateSet", "spec", None, 0, AfterReset)

\* Chart.svelte: XYSelection.onChange of a rendered selection merges the
\* brush value (or undefined) into the chart state.
Brush(key, v) ==
    /\ ~EffectPending
    /\ mounted
    /\ outputs.defined
    /\ key \in SeqToSet(SelectionKeys(Cur))
    /\ chartState[key] # v
    /\ Commit([Cur EXCEPT !.chartState[key] = v, !.stateDirty = TRUE])
    /\ lastOp' = Op("brush", "spec", key, 0, FALSE)

\* Chart.svelte: onDestroy(() => runtime.destroy()).
Destroy ==
    /\ ~EffectPending
    /\ mounted
    /\ Commit(destroy([Cur EXCEPT !.mounted = FALSE]))
    /\ lastOp' = Op("destroy", "spec", None, 0, FALSE)

\* The result of a layer query is delivered to the client's queryResult.
QueryResult(id, d) ==
    /\ ~EffectPending
    /\ id \in inflight
    /\ clients[id].chart = "spec"
    /\ nResults < MaxResults
    /\ Commit(queryResult([Cur EXCEPT !.inflight = @ \ {id}, !.nResults = @ + 1], id, d))
    /\ lastOp' = Op("queryResult", "spec", d, id, ~clients[id].alive \/ ~mounted)

----------------------------------------------------------------------------
(* Actions of the basic charts *)

\* The statistics of a count plot arrive: the client effect of initializeClient runs.
CountReady(c) ==
    /\ ~EffectPending
    /\ bphase[c] = "loading"
    /\ bsource[c] < MaxInits
    /\ Commit(CountSetup(Cur, c))
    /\ lastOp' = Op("countReady", c, None, 0, FALSE)

\* The selection-sync effect of a count plot re-runs after a selection change.
CountSync(c) ==
    /\ bphase[c] = "ready"
    /\ bdirty[c]
    /\ Commit(FilterUpdate([Cur EXCEPT !.bdirty[c] = FALSE], CountClause(Cur, c)))
    /\ lastOp' = Op("countSync", c, None, 0, AfterReset)

\* A click on a bar of a count plot; bars are shown once a first result
\* has arrived, and stay shown while the chart re-initialises.
CountToggle(c, value, shift) ==
    /\ ~EffectPending
    /\ bphase[c] = "ready" \/ (bphase[c] = "loading" /\ bsource[c] > 0)
    /\ Commit([Cur EXCEPT !.bsel[c] = toggleSelection(@, value, shift), !.bdirty[c] = TRUE])
    /\ lastOp' = Op("countToggle", c, value, 0, shift)

\* initializeClient re-runs (the field or the bar limit changed): the
\* effects of the previous run are torn down.
CountReinit(c) ==
    /\ ~EffectPending
    /\ bphase[c] = "ready"
    /\ Commit([CountTeardownFn(Cur, c) EXCEPT !.bphase[c] = "loading"])
    /\ lastOp' = Op("countReinit", c, None, 0, FALSE)

\* The count plot component is destroyed.
CountDestroy(c) ==
    /\ ~EffectPending
    /\ bphase[c] \in {"loading", "ready"}
    /\ Commit([(IF bphase[c] = "ready" THEN CountTeardownFn(Cur, c) ELSE Cur)
                 EXCEPT !.bphase[c] = "destroyed"])
    /\ lastOp' = Op("countDestroy", c, None, 0, bphase[c] = "ready")

\* The predicates chart is mounted: its Mosaic-client effect runs.
PredReady ==
    /\ ~EffectPending
    /\ bphase["pr"] = "loading"
    /\ Commit(PredSetup(Cur))
    /\ lastOp' = Op("predReady", "pr", None, 0, FALSE)

\* The sync effect of the predicates chart re-runs.
PredSync ==
    /\ bphase["pr"] = "ready"
    /\ bdirty["pr"]
    /\ Commit(FilterUpdate([Cur EXCEPT !.bdirty["pr"] = FALSE], PredClause(Cur)))
    /\ lastOp' = Op("predSync", "pr", None, 0, AfterReset)

\* A click on an item of the predicates chart.
PredToggle(value, shift) ==
    /\ ~EffectPending
    /\ bphase["pr"] = "ready"
    /\ Commit([Cur EXCEPT !.bsel["pr"] = PredClick(@, value, shift), !.bdirty["pr"] = TRUE])
    /\ lastOp' = Op("predToggle", "pr", value, 0, shift)

\* The predicates chart component is destroyed.
PredDestroy ==
    /\ ~EffectPending
    /\ bphase["pr"] = "ready"
    /\ Commit([PredTeardownFn(Cur) EXCEPT !.bphase["pr"] = "destroyed"])
    /\ lastOp' = Op("predDestroy", "pr", None, 0, TRUE)

\* EmbeddingAtlas.svelte: the global clear-filters action.
ResetFilter ==
    /\ ~EffectPending
    /\ Len(filter) > 0
    /\ Commit(resetFilter(Cur, filter, 1))
    /\ lastOp' = Op("resetFilter", None, None, Len(filter), FALSE)

----------------------------------------------------------------------------
(* Actions of the spec chart with the statistics cache *)

\* A suspended setSpec call whose awaited Promise.all has settled: every
\* promise fulfilled, or one of them rejected.
Fulfilled(p) == \A k \in StatKeysOf[ContentOf[p.spec]] : cache[k] = "resolved"
Rejected(p) == \E k \in StatKeysOf[ContentOf[p.spec]] : cache[k] = "rejected"

\* A continuation of a settled await has not run yet; continuations run
\* before the next event is handled.
ContinuationPending == \E p \in pending : Fulfilled(p) \/ Rejected(p)

\* Continuations run in the order in which the calls awaited.
FirstSettled(p) ==
    /\ p \in pending
    /\ Fulfilled(p) \/ Rejected(p)
    /\ \A q \in pending : (Fulfilled(q) \/ Rejected(q)) => p.id <= q.id

\* Chart.svelte: $effect.pre(() => runtime.setSpec(spec)), up to the await
\* of computeAllFieldStats.
StatsSetSpec(o) ==
    /\ mounted
    /\ ~ContinuationPending
    /\ deepEquals(o, spec) \/ nCalls < MaxCalls
    /\ Commit(SetSpecRequest(Cur, o))
    /\ lastOp' = Op("setSpec", "spec", o, 0, deepEquals(o, spec))

\* A computeFieldStats call finishes: its queries succeeded, or one failed.
StatsQueryDone(key, ok) ==
    /\ ~EffectPending
    /\ ~ContinuationPending
    /\ cache[key] = "pending"
    /\ Commit([Cur EXCEPT !.cache[key] = IF ok THEN "resolved" ELSE "rejected"])
    /\ lastOp' = Op("statsQuery", "spec", key, 0, ok)

\* setSpec resumes after the await with the statistics.
StatsResume(p) ==
    /\ FirstSettled(p)
    /\ ~Rejected(p)
    /\ Commit(SetSpecResume([Cur EXCEPT !.pending = @ \ {p}], p))
    /\ lastOp' = Op("statsDone", "spec", p.spec, p.id, p.superseded)

\* The await throws: setSpec rejects to its caller.
StatsReject(p) ==
    /\ FirstSettled(p)
    /\ Rejected(p)
    /\ Commit([Cur EXCEPT !.pending = @ \ {p}])
    /\ lastOp' = Op("statsRejected", "spec", p.spec, p.id, p.superseded)

----------------------------------------------------------------------------
(* Chart compilation: encodings, layers and layer outputs *)

\* An optional number that is absent
NoCount == -1

\* The bin of a field encoding: undefined, or an object whose desiredCount
\* may be absent.
NoBin == [defined |-> FALSE, desiredCount |-> NoCount]
Bin(n) == [defined |-> TRUE, desiredCount |-> n]

\* An encoding; a key that is None is not in the object.
Encoding(aggregate, field, bin, value) ==
    [aggregate |-> aggregate, field |-> field, bin |-> bin, value |-> value]

\* Encoded attributes, in the order in which a layer lists them.
Attributes == <<"x", "y", "color", "group">>

\* Columns of the table: a is numeric, s is a string column, u has a type
\* for which computeFieldStats returns undefined.
Fields == {"a", "s", "u"}
FieldKind == [f \in Fields |-> CASE f = "a" -> "quantitative" [] f = "s" -> "nominal" [] OTHER -> None]

\* A SQL expression: an aggregate of a field, a column or a binned field.
Expr(op, field, n) == [op |-> op, field |-> field, n |-> n]
NoExpr == Expr(None, None, NoCount)

DefaultBinCountPosition == 20
DefaultBinCountOther == 5

channelForAttribute(attribute) ==
    CASE attribute \in {"x", "x1", "x2"} -> "x"
      [] attribute \in {"y", "y1", "y2"} -> "y"
      [] attribute = "color" -> "color"
      [] attribute = "size" -> "size"
      [] OTHER -> None

numericalAggregates ==
    {"min", "max", "mean", "average", "median", "stdev", "stdevp", "variance", "variancep",
     "sum", "product", "quantile"}

\* What buildEncoding returns, with the warning it logged (None: no warning).
EncodingResult(select, grouping, mapper, scale) ==
    [defined |-> TRUE, select |-> select, grouping |-> grouping, mapper |-> mapper,
     scale |-> scale, warn |-> None]
NoEncodingResult(warn) ==
    [defined |-> FALSE, select |-> NoExpr, grouping |-> <<>>, mapper |-> FALSE,
     scale |-> None, warn |-> warn]

\* The bin of a field encoding taken as written
EncodingBinAsWritten(channel, encoding, fieldsInGroupBy) == encoding.bin

\* The bin of a field encoding: an encoding without one is binned by default
\* when the fields are in the group-by and the attribute has a channel.
EncodingBin(channel, encoding, fieldsInGroupBy) ==
    IF ~encoding.bin.defined /\ fieldsInGroupBy /\ channel # None
    THEN Bin(NoCount) ELSE encoding.bin

buildEncoding(channel, encoding, fieldsInGroupBy) ==
    IF encoding.aggregate # None THEN
        CASE encoding.aggregate = "count" ->
                 EncodingResult(Expr("count", None, NoCount), <<>>, FALSE, "quantitative")
          [] encoding.aggregate = "ecdf-value" ->
                 IF encoding.field # None
                 THEN EncodingResult(Expr("ecdf-value", encoding.field, NoCount), <<>>, FALSE,
                                     "quantitative")
                 ELSE NoEncodingResult("require a field")
          [] encoding.aggregate = "ecdf-rank" ->
                 EncodingResult(Expr("ecdf-rank", None, NoCount), <<>>, FALSE, "quantitative")
          [] OTHER ->
                 IF encoding.aggregate \in numericalAggregates
                 THEN IF encoding.field # None
                      THEN EncodingResult(Expr(encoding.aggregate, encoding.field, NoCount),
                                          <<>>, FALSE, "quantitative")
                      ELSE NoEncodingResult("require a field")
                 ELSE NoEncodingResult("unknown aggregate")
    ELSE IF encoding.field # None THEN
        LET bin == EncodingBin(channel, encoding, fieldsInGroupBy)
            stats == FieldKind[encoding.field]
        IN  IF stats = None THEN NoEncodingResult(None)
            ELSE IF bin.defined THEN
                LET binCount == IF bin.desiredCount # NoCount THEN bin.desiredCount
                                ELSE IF channel \in {"x", "y"} THEN DefaultBinCountPosition
                                ELSE DefaultBinCountOther
                    select == Expr("bin", encoding.field, binCount)
                IN  EncodingResult(select, <<select>>, TRUE,
                                   IF channel = None THEN None
                                   ELSE IF stats = "nominal" THEN "nominal" ELSE "quantitative")
            ELSE
                LET select == Expr("column", encoding.field, NoCount)
                IN  EncodingResult(select, IF fieldsInGroupBy THEN <<select>> ELSE <<>>, FALSE,
                                   stats)
    ELSE IF encoding.value # None THEN
        EncodingResult(NoExpr, <<>>, TRUE, "nominal")
    ELSE NoEncodingResult(None)

\* The attributes a layer encodes, in order
LayerAttributes(layer) ==
    SelectSeq(Attributes, LAMBDA a : a \in DOMAIN layer.encoding)

hasAggregateOrBin(layer) ==
    \E a \in DOMAIN layer.encoding :
        \/ layer.encoding[a].aggregate # None
        \/ layer.encoding[a].field # None /\ layer.encoding[a].bin.defined

\* The encodings of a layer resolved one by one
EncodingResults(layer) ==
    [a \in DOMAIN layer.encoding |->
        buildEncoding(channelForAttribute(a), layer.encoding[a], hasAggregateOrBin(layer))]

RECURSIVE ConcatGroupings(_, _, _)
ConcatGroupings(r, attrs, i) ==
    IF i > Len(attrs) THEN <<>>
    ELSE (IF r[attrs[i]].defined THEN r[attrs[i]].grouping ELSE <<>>)
         \o ConcatGroupings(r, attrs, i + 1)

\* A data table
Table(length, columns) == [length |-> length, columns |-> columns]

----------------------------------------------------------------------------
(* Mark shaping: stack and completeCross on in-memory tables *)

\* Data values: a finite number, a non-finite number, null, a string and a
\* pair of numbers.
Num(n) == [t |-> "number", n |-> n, m |-> 0, s |-> ""]
NaN == [t |-> "NaN", n |-> 0, m |-> 0, s |-> ""]
Null == [t |-> "null", n |-> 0, m |-> 0, s |-> ""]
Str(str) == [t |-> "string", n |-> 0, m |-> 0, s |-> str]
Interval(lo, hi) == [t |-> "interval", n |-> lo, m |-> hi, s |-> ""]

\* typeof value == "number" && isFinite(value)
IsFiniteNumber(v) == v.t = "number"

\* The error of reading a property of undefined
TypeError == [threw |-> TRUE]
Threw(r) == "threw" \in DOMAIN r

\* JSON.stringify of a data value.  The text is represented by the value it
\* parses back to: a non-finite number is written as null.
JSONstringify(v) == IF v.t = "NaN" THEN Null ELSE v

\* JSON.parse of a key
valueForKey(key) == key

\* The distinct elements of a sequence in the order of their first
\* occurrence (a Set or Map filled in a loop).
RECURSIVE InsertionOrder(_, _)
InsertionOrder(seq, i) ==
    IF i = 0 THEN <<>>
    ELSE LET before == InsertionOrder(seq, i - 1)
         IN  IF seq[i] \in SeqToSet(before) THEN before ELSE Append(before, seq[i])

\* The comparator of a binned quantitative field: strings after intervals,
\* intervals by their lower edge.
quantitativeOrder(a, b) ==
    LET xa == IF a.t = "string" THEN <<1, 0>> ELSE <<0, a.n>>
        xb == IF b.t = "string" THEN <<1, 0>> ELSE <<0, b.n>>
    IN  IF xa[1] # xb[1] THEN xa[1] - xb[1] ELSE xa[2] - xb[2]

\* The first non-zero result of the comparators of `orders` (column names in
\* the order of the keys), 0 if there is none.
RECURSIVE CompareOrders(_, _, _, _, _)
CompareOrders(data, orders, k, i1, i2) ==
    IF k > Len(orders) THEN 0
    ELSE IF orders[k] \notin DOMAIN data.columns
         THEN CompareOrders(data, orders, k + 1, i1, i2)
         ELSE LET colump == data.columns[orders[k]]
                  r == quantitativeOrder(colump[i1], colump[i2])
              IN  IF r # 0 THEN r ELSE CompareOrders(data, orders, k + 1, i1, i2)

\* The running sum along one stack column
RECURSIVE StackEntry(_, _, _, _)
StackEntry(newFieldColumn, entry, j, csum) ==
    IF j > Len(entry) THEN newFieldColumn
    ELSE LET i == entry[j]
             value == newFieldColumn[i]
         IN  IF ~IsFiniteNumber(value)
             THEN StackEntry([newFieldColumn EXCEPT ![i] = Null], entry, j + 1, csum)
             ELSE StackEntry([newFieldColumn EXCEPT ![i] = Interval(csum, csum + value.n)],
                             entry, j + 1, csum + value.n)

RECURSIVE StackEntries(_, _, _, _, _)
StackEntries(data, orders, newFieldColumn, keyOf, keys) ==
    IF keys = <<>> THEN newFieldColumn
    ELSE LET rows == SelectSeq([i \in 1..data.length |-> i], LAMBDA i : keyOf[i] = Head(keys))
             entry == SortSeq(rows, LAMBDA i1, i2 :
                          LET r == CompareOrders(data, orders, 1, i1, i2)
                          IN  IF r # 0 THEN r < 0 ELSE i1 < i2)
         IN  StackEntries(data, orders, StackEntry(newFieldColumn, entry, 1, 0), keyOf,
                          Tail(keys))

stack(data, by, orders) ==
    LET field == IF by = "x" THEN "y" ELSE "x"
        keyOf == [i \in 1..data.length |->
                     IF by \in DOMAIN data.columns THEN JSONstringify(data.columns[by][i])
                     ELSE Str("")]
    IN  IF field \notin DOMAIN data.columns THEN TypeError
        ELSE Table(data.length,
                   [data.columns EXCEPT
                       ![field] = StackEntries(data, orders, data.columns[field], keyOf,
                                               InsertionOrder(keyOf, data.length))])

\* The rows completeCross appends: one per (byKey, otherKey) not combined in
\* the input, in the order of the two loops.
MissingPairs(bySeq, otherSeq, combinedSet) ==
    LET pairs == [n \in 1..(Len(bySeq) * Len(otherSeq)) |->
                     <<bySeq[((n - 1) \div Len(otherSeq)) + 1],
                       otherSeq[((n - 1) % Len(otherSeq)) + 1]>>]
    IN  SelectSeq(pairs, LAMBDA pr : pr \notin combinedSet)

completeCross(data, by, field, value) ==
    IF by \notin DOMAIN data.columns \/ field \notin DOMAIN data.columns THEN TypeError
    ELSE
    LET otherColumns == DOMAIN data.columns \ {by, field}
        byKey == [i \in 1..data.length |-> JSONstringify(data.columns[by][i])]
        otherKey == [i \in 1..data.length |->
                        [name \in otherColumns |-> JSONstringify(data.columns[name][i])]]
        combinedSet == {<<byKey[i], otherKey[i]>> : i \in 1..data.length}
        missing == MissingPairs(InsertionOrder(byKey, data.length),
                                InsertionOrder(otherKey, data.length), combinedSet)
    IN  Table(data.length + Len(missing),
              [name \in DOMAIN data.columns |->
                  data.columns[name] \o
                  [n \in 1..Len(missing) |->
                      IF name = by THEN valueForKey(missing[n][1])
                      ELSE IF name = field THEN value
                      ELSE valueForKey(missing[n][2][name])]])

----------------------------------------------------------------------------
(* Layer outputs *)

inferOrientation(layer) ==
    IF "x" \in DOMAIN layer.encoding /\ layer.encoding["x"].aggregate # None
    THEN "horizontal" ELSE "vertical"

\* What layerOutputs returns: the shaped data, or undefined with the warning
\* logged, or the error thrown by the shaping.
LayerOutput(data) == [defined |-> TRUE, threw |-> FALSE, data |-> data, warn |-> None]
NoLayerOutput(warn) ==
    [defined |-> FALSE, threw |-> FALSE, data |-> Table(0, <<>>), warn |-> warn]
LayerThrew == [defined |-> FALSE, threw |-> TRUE, data |-> Table(0, <<>>), warn |-> None]

Shaped(data) == IF Threw(data) THEN LayerThrew ELSE LayerOutput(data)

layerOutputs(layer, data, orders) ==
    LET orientation == IF layer.orientation # None THEN layer.orientation
                       ELSE inferOrientation(layer)
    IN  CASE layer.mark = "bar" ->
                 CASE orientation = "horizontal" -> Shaped(stack(data, "y", orders))
                   [] orientation = "vertical" -> Shaped(stack(data, "x", orders))
                   [] OTHER -> NoLayerOutput("Invalid orientation")
          [] layer.mark \in {"point", "rect", "line", "rule"} -> LayerOutput(data)
          [] layer.mark = "area" ->
                 CASE orientation = "horizontal" ->
                          LET crossed == completeCross(data, "y", "x", Num(0))
                          IN  IF Threw(crossed) THEN LayerThrew
                              ELSE Shaped(stack(crossed, "y", orders))
                   [] orientation = "vertical" ->
                          LET crossed == completeCross(data, "x", "y", Num(0))
                          IN  IF Threw(crossed) THEN LayerThrew
                              ELSE Shaped(stack(crossed, "x", orders))
                   [] OTHER -> NoLayerOutput("Invalid orientation")
          [] OTHER -> NoLayerOutput("Invalid mark")

----------------------------------------------------------------------------
(* Layers and charts *)

\* A layer of a chart spec; encoding maps the encoded attributes.
Layer(mark, orientation, layerFilter, from, encoding) ==
    [mark |-> mark, orientation |-> orientation, filter |-> layerFilter, from |-> from,
     encoding |-> encoding]

\* The value a mapper gives a column of a query result, and the constant of
\* a value encoding
MappedValue(r) == IF r.select.op = "bin" THEN Interval(0, 1) ELSE Str("v")

\* buildLayer up to the creation of the client: the resolved encodings, the
\* select entries, the group-by list, the mappers, the comparators and the
\* warnings logged.
ResolveLayer(layer) ==
    LET r == EncodingResults(layer)
        attrs == LayerAttributes(layer)
    IN  [results |-> r,
         selectEntries |-> {a \in DOMAIN r : r[a].defined /\ r[a].select # NoExpr},
         groupBys |-> ConcatGroupings(r, attrs, 1),
         fieldMappers |-> {a \in DOMAIN r : r[a].defined /\ r[a].mapper},
         orders |-> SelectSeq(attrs, LAMBDA a : r[a].defined /\ r[a].select.op = "bin"),
         warnings |-> {r[a].warn : a \in {b \in DOMAIN r : r[b].warn # None}}]

\* The table a layer without select entries is given
SingleRowTable(resolved) ==
    Table(1, [key \in resolved.fieldMappers |-> <<MappedValue(resolved.results[key])>>])

\* The table queryResult makes of a one-row result: the selected columns,
\* with the mapped columns mapped or backfilled.
ResultTable(resolved) ==
    Table(1, [name \in resolved.selectEntries \cup resolved.fieldMappers |->
                 IF name \in resolved.fieldMappers
                 THEN <<MappedValue(resolved.results[name])>> ELSE <<Num(1)>>])

\* buildLayer: a layer without select entries gets its output at once, any
\* other layer gets a client and no output yet.
buildLayer(layer) ==
    LET resolved == ResolveLayer(layer)
    IN  IF resolved.selectEntries = {}
        THEN [resolved |-> resolved, client |-> FALSE,
              outputs |-> layerOutputs(layer, SingleRowTable(resolved), resolved.orders)]
        ELSE [resolved |-> resolved, client |-> TRUE, outputs |-> NoLayerOutput(None)]

\* The queryResult callback of a layer's client
layerQueryResult(layer, built) ==
    layerOutputs(layer, ResultTable(built.resolved), built.resolved.orders)

\* buildChart followed by one query result for every client.  An error
\* thrown while building leaves the chart without outputs; an error thrown
\* by a queryResult callback leaves that layer's output undefined.
BuildAndUpdate(layers) ==
    LET built == [i \in 1..Len(layers) |-> buildLayer(layers[i])]
        buildThrew == \E i \in 1..Len(layers) : built[i].outputs.threw
        out == [i \in 1..Len(layers) |->
                   IF built[i].client THEN layerQueryResult(layers[i], built[i])
                   ELSE built[i].outputs]
    IN  [threw |-> buildThrew,
         updateThrew |-> IF buildThrew THEN {} ELSE {i \in 1..Len(layers) : out[i].threw},
         warnings |-> [i \in 1..Len(layers) |->
                          built[i].resolved.warnings \cup
                          (IF ~buildThrew /\ out[i].warn # None THEN {out[i].warn} ELSE {})],
         layers |-> IF buildThrew THEN {} ELSE {i \in 1..Len(layers) : out[i].defined},
         columns |-> [i \in 1..Len(layers) |->
                         IF ~buildThrew /\ out[i].defined THEN DOMAIN out[i].data.columns
                         ELSE {}]]

\* Layers of a chart
MaxLayers == 2

NoEncoding == Encoding(None, None, NoBin, None)
FieldEncoding(field) == Encoding(None, field, NoBin, None)
AggregateEncoding(aggregate, field) == Encoding(aggregate, field, NoBin, None)

\* Encodings of the layers of the charts built: a count, a mean with and
\* without its field, and an aggregate name that does not exist.
ChartEncodings ==
    {[a \in {"x", "y"} |-> IF a = "x" THEN FieldEncoding("a") ELSE AggregateEncoding(ag[1], ag[2])] :
        ag \in {<<"count", None>>, <<"mean", "a">>, <<"mean", None>>, <<"mode", "a">>}}
    \cup {[a \in {"y"} |-> AggregateEncoding("mean", None)]}

ChartLayers ==
    {Layer(mark, orientation, None, None, encoding) :
        mark \in {"bar", "point", "blob"}, orientation \in {None, "diagonal"},
        encoding \in ChartEncodings}

RECURSIVE SeqsUpTo(_, _)
SeqsUpTo(S, n) ==
    IF n = 0 THEN {<<>>}
    ELSE LET shorter == SeqsUpTo(S, n - 1)
         IN  shorter \cup {Append(q, e) : q \in {t \in shorter : Len(t) = n - 1}, e \in S}

ChartSpecs == SeqsUpTo(ChartLayers, MaxLayers) \ {<<>>}

\* The call under check has returned.
Returned == Len(fnOut) = 1

\* A chart is built and every layer query answers once.
BuildChart ==
    /\ fnOut = <<>>
    /\ fnOut' = <<BuildAndUpdate(fnIn)>>
    /\ UNCHANGED <<fnIn, objVars>>

----------------------------------------------------------------------------
(* Field statistics and aggregate inference *)

\* Rows of a numeric column
MaxRows == 3

NumericValues == {Num(-1), Num(0), Num(2), NaN, Null}

MinOf(S) ==
    IF S = {} THEN Null
    ELSE LET v == CHOOSE v \in S : \A w \in S : v.n <= w.n IN v

MaxOf(S) ==
    IF S = {} THEN Null
    ELSE LET v == CHOOSE v \in S : \A w \in S : v.n >= w.n IN v

\* computeFieldStats of a numeric column: the aggregates of the finite
\* values (null when there is none) and the number of non-finite or null
\* rows.
QuantitativeStats(column) ==
    LET finite == {column[i] : i \in {j \in 1..Len(column) : IsFiniteNumber(column[j])}}
    IN  [count |-> Cardinality({j \in 1..Len(column) : IsFiniteNumber(column[j])}),
         min |-> MinOf(finite),
         minPositive |-> MinOf({v \in finite : v.n > 0}),
         max |-> MaxOf(finite),
         countNonFinite |-> Cardinality({j \in 1..Len(column) : ~IsFiniteNumber(column[j])})]

\* The scale inferBinning chooses: the scale type asked for, linear when
\* none is.
inferBinning(stats, options) ==
    [scale |-> [type |-> IF options.scale # None THEN options.scale ELSE "linear"]]

\* The bucket the select expression and the field mapper of a quantitative
\* aggregate give a value: null, shown as "n/a", for a value that is not
\* finite or, on a log scale, not positive.
QuantitativeBucket(type, v) ==
    IF type = "log"
    THEN IF IsFiniteNumber(v) /\ v.n > 0 THEN "bin" ELSE "n/a"
    ELSE IF IsFiniteNumber(v) THEN "bin" ELSE "n/a"

\* inferAggregate of quantitative statistics: the scale, and the bucket of
\* every row of the column.
inferAggregateQuantitative(column, scaleType) ==
    LET stats == QuantitativeStats(column)
        binning == inferBinning(stats, [scale |-> scaleType])
        hasNA == \/ stats.countNonFinite > 0
                 \/ binning.scale.type = "log" /\ IsFiniteNumber(stats.min) /\ stats.min.n < 0
    IN  [scale |-> [type |-> binning.scale.type,
                    specialValues |-> IF hasNA THEN <<"n/a">> ELSE <<>>],
         buckets |-> [i \in 1..Len(column) |-> QuantitativeBucket(binning.scale.type, column[i])]]

QuantitativeInputs ==
    {[column |-> c, scaleType |-> t] :
        c \in SeqsUpTo(NumericValues, MaxRows), t \in {None, "linear", "log"}}

InferQuantitative ==
    /\ fnOut = <<>>
    /\ fnOut' = <<inferAggregateQuantitative(fnIn.column, fnIn.scaleType)>>
    /\ UNCHANGED <<fnIn, objVars>>

\* Levels of a string column, in the order the query lists levels of equal
\* count, and the most rows one level has.
LevelNames == <<"a", "b", "c", "d">>
MaxCount == 3

\* The levels query lists at most this many levels (1000 in the program).
LevelLimit == 3

RECURSIVE SumCounts(_, _)
SumCounts(levels, i) ==
    IF i > Len(levels) THEN 0 ELSE levels[i].count + SumCounts(levels, i + 1)

\* computeFieldStats of a string column whose levels have the given texts,
\* given as the number of rows of each level and the number of null rows.
NominalStatsOf(names, counts, nullCount) ==
    LET present == SelectSeq(names, LAMBDA l : counts[l] > 0)
        rank == [l \in SeqToSet(names) |-> CHOOSE i \in 1..Len(names) : names[i] = l]
        ordered == SortSeq(present, LAMBDA l1, l2 :
                       counts[l1] > counts[l2] \/ (counts[l1] = counts[l2] /\ rank[l1] < rank[l2]))
        all == [i \in 1..Len(ordered) |-> [value |-> ordered[i], count |-> counts[ordered[i]]]]
        levels == SubSeq(all, 1, IF Len(all) < LevelLimit THEN Len(all) ELSE LevelLimit)
        others == SubSeq(all, Len(levels) + 1, Len(all))
    IN  [levels |-> levels, numOtherLevels |-> Len(others), otherCount |-> SumCounts(others, 1),
         nullCount |-> nullCount]

NominalStats(counts, nullCount) == NominalStatsOf(LevelNames, counts, nullCount)

\* `(${numOtherLevels.toLocaleString()} others)` and "(null)"
OtherTexts == <<"(0 others)", "(1 others)", "(2 others)", "(3 others)", "(4 others)">>
OtherRepr(n) == OtherTexts[n + 1]
NullRepr == "(null)"

\* inferAggregate of nominal statistics
inferAggregateNominal(stats, binCount) ==
    LET clip == Len(stats.levels) > binCount
        numOtherLevels == IF clip THEN stats.numOtherLevels + (Len(stats.levels) - binCount)
                          ELSE stats.numOtherLevels
        otherCount == IF clip THEN SumCounts(SubSeq(stats.levels, binCount + 1, Len(stats.levels)), 1)
                      ELSE stats.otherCount
        levels == IF clip THEN SubSeq(stats.levels, 1, binCount) ELSE stats.levels
    IN  [scale |-> [type |-> "band",
                    domain |-> [i \in 1..Len(levels) |-> levels[i].value],
                    specialValues |-> (IF otherCount > 0 THEN <<OtherRepr(numOtherLevels)>> ELSE <<>>)
                                      \o (IF stats.nullCount > 0 THEN <<NullRepr>> ELSE <<>>)],
         numOtherLevels |-> numOtherLevels,
         otherCount |-> otherCount]

NominalInputs ==
    {[counts |-> c, nullCount |-> n, binCount |-> b] :
        c \in [SeqToSet(LevelNames) -> 0..MaxCount], n \in 0..1, b \in 1..2}

InferNominal ==
    /\ fnOut = <<>>
    /\ fnOut' = <<inferAggregateNominal(NominalStats(fnIn.counts, fnIn.nullCount), fnIn.binCount)>>
    /\ UNCHANGED <<fnIn, objVars>>

----------------------------------------------------------------------------
(* Calls of stack and completeCross *)

\* Rows of a result table: the grouping-axis value x, the stacked value y
\* and a binned colour.
TableRows ==
    {[x |-> x, y |-> y, color |-> c] :
        x \in {Num(1), NaN, Null}, y \in {Num(3), Num(2), NaN},
        c \in {Interval(0, 1), Interval(1, 2)}}

TableOf(rows) ==
    Table(Len(rows), [name \in {"x", "y", "color"} |-> [i \in 1..Len(rows) |-> rows[i][name]]])

StackInputs ==
    {[data |-> TableOf(rows), by |-> "x", orders |-> o] :
        rows \in SeqsUpTo(TableRows, MaxRows), o \in {<<>>, <<"color">>}}

Stack ==
    /\ fnOut = <<>>
    /\ fnOut' = <<stack(fnIn.data, fnIn.by, fnIn.orders)>>
    /\ UNCHANGED <<fnIn, objVars>>

CrossInputs ==
    {[data |-> TableOf(rows), by |-> "x", field |-> "y", value |-> Num(0)] :
        rows \in SeqsUpTo(TableRows, MaxRows)}

CompleteCross ==
    /\ fnOut = <<>>
    /\ fnOut' = <<completeCross(fnIn.data, fnIn.by, fnIn.field, fnIn.value)>>
    /\ UNCHANGED <<fnIn, objVars>>

----------------------------------------------------------------------------
(* Scale inference *)

\* The numbers of vals.flat() that are finite
FiniteNumbers(vals) ==
    UNION {IF vals[i].t = "number" THEN {vals[i].n}
           ELSE IF vals[i].t = "interval" THEN {vals[i].n, vals[i].m}
           ELSE {} : i \in 1..Len(vals)}

\* d3.extent: <<min, max>>, or <<>> for [undefined, undefined]
Extent(numbers) ==
    IF numbers = {} THEN <<>>
    ELSE <<CHOOSE lo \in numbers : \A n \in numbers : lo <= n,
           CHOOSE hi \in numbers : \A n \in numbers : hi >= n>>

finiteExtent(values) == Extent(FiniteNumbers(values))

\* inferScale for the single-point domain without the expansion to zero
inferScaleNoExpansion(scaleSpec, hints, data, channel) ==
    LET parts == UNION {SeqToSet(finiteExtent(vals)) : vals \in {hints.domain} \cup SeqToSet(data)}
        extent == Extent(parts)
        min0 == IF extent = <<>> THEN 0 ELSE extent[1]
        max0 == IF extent = <<>> THEN 1 ELSE extent[2]
        includeZero == channel = "size" \/ hints.includeZero
        min2 == IF includeZero /\ min0 > 0 THEN 0 ELSE min0
        max2 == IF includeZero /\ ~(min0 > 0) /\ max0 < 0 THEN 0 ELSE max0
    IN  [domain |-> IF scaleSpec.domain # <<>> THEN scaleSpec.domain ELSE <<min2, max2>>]

\* inferScale, kind quantitative
inferScale(scaleSpec, hints, data, channel) ==
    LET parts == UNION {SeqToSet(finiteExtent(vals)) : vals \in {hints.domain} \cup SeqToSet(data)}
        extent == Extent(parts)
        \* Placeholder for no data
        min0 == IF extent = <<>> THEN 0 ELSE extent[1]
        max0 == IF extent = <<>> THEN 1 ELSE extent[2]
        \* Single point, extended to zero
        min1 == IF min0 = max0 /\ min0 > 0 THEN 0 ELSE min0
        max1 == IF min0 = max0 /\ ~(min0 > 0)
                THEN IF min0 < 0 THEN 0 ELSE 1
                ELSE max0
        \* Include zero
        includeZero == channel = "size" \/ hints.includeZero
        min2 == IF includeZero /\ min1 > 0 THEN 0 ELSE min1
        max2 == IF includeZero /\ ~(min1 > 0) /\ max1 < 0 THEN 0 ELSE max1
    IN  [domain |-> IF scaleSpec.domain # <<>> THEN scaleSpec.domain ELSE <<min2, max2>>]

\* Values of a column of channel data
MaxValues == 2

ScaleValues == {Num(-2), Num(3), NaN, Interval(1, 5)}

\* The scale of a channel drawn by two layers; an absent domain is <<>>.
ScaleInputs ==
    {[spec |-> [domain |-> d], hints |-> [domain |-> h, includeZero |-> z],
      data |-> <<c1, c2>>, channel |-> ch] :
        d \in {<<>>, <<0, 9>>}, h \in {<<>>, <<Num(0)>>, <<Num(0), Num(1)>>},
        z \in BOOLEAN, ch \in {"x", "size"},
        c1 \in SeqsUpTo(ScaleValues, MaxValues), c2 \in SeqsUpTo(ScaleValues, MaxValues)}

InferScale ==
    /\ fnOut = <<>>
    /\ fnOut' = <<inferScale(fnIn.spec, fnIn.hints, fnIn.data, fnIn.channel)>>
    /\ UNCHANGED <<fnIn, objVars>>

----------------------------------------------------------------------------
(* Scale hints *)

\* Scale hints; a domain or a list of special values that is absent is <<>>,
\* which is what `?? []` makes of it.
ScaleHints(kind, type, domain, specialValues, includeZero) ==
    [kind |-> kind, type |-> type, domain |-> domain, specialValues |-> specialValues,
     includeZero |-> includeZero]

\* mergeScaleHints keeping the domain and special values of the first hints
\* that have any
mergeScaleHintsKeepCurrent(current, value) ==
    ScaleHints(value.kind,
               IF current.type # None THEN current.type ELSE value.type,
               IF current.domain # <<>> THEN current.domain ELSE value.domain,
               IF current.specialValues # <<>> THEN current.specialValues
               ELSE value.specialValues,
               current.includeZero \/ value.includeZero)

mergeScaleHints(current, value) ==
    ScaleHints(value.kind,
               IF current.type # None THEN current.type ELSE value.type,
               current.domain \o value.domain,
               current.specialValues \o value.specialValues,
               current.includeZero \/ value.includeZero)

HintsInputs ==
    {ScaleHints(kind, None, domain, specialValues, FALSE) :
        kind \in {"quantitative", "nominal"},
        domain \in {<<>>, <<Num(0)>>, <<Num(0), Num(1)>>, <<Str("v")>>},
        specialValues \in {<<>>, <<"n/a">>, <<"(null)">>}}

\* The hints of three encodings of one channel
HintsTriples == HintsInputs \X HintsInputs \X HintsInputs

\* The hints of a channel merged in every order, within a layer first
\* (buildLayer) or layer after layer (buildChart).
MergeAll(h) ==
    {mergeScaleHints(mergeScaleHints(h[p[1]], h[p[2]]), h[p[3]]) :
        p \in {q \in [1..3 -> 1..3] : {q[1], q[2], q[3]} = 1..3}}
    \cup {mergeScaleHints(h[p[1]], mergeScaleHints(h[p[2]], h[p[3]])) :
        p \in {q \in [1..3 -> 1..3] : {q[1], q[2], q[3]} = 1..3}}

MergeHints ==
    /\ fnOut = <<>>
    /\ fnOut' = <<MergeAll(fnIn)>>
    /\ UNCHANGED <<fnIn, objVars>>

----------------------------------------------------------------------------
(* Calls of buildLayer *)

\* What a layer lists for an attribute; NoEncoding stands for an attribute
\* that is not listed.
PositionEncodings ==
    {NoEncoding, FieldEncoding("a"), FieldEncoding("s"), FieldEncoding("u"),
     Encoding(None, "a", Bin(10), None),
     AggregateEncoding("count", None), AggregateEncoding("mean", "a")}

LayerEncodings ==
    {[a \in {b \in {"x", "y", "color", "group"} : e[b] # NoEncoding} |-> e[a]] :
        e \in [{"x", "y", "color", "group"} -> PositionEncodings]}

LayerInputs ==
    {Layer("point", None, None, None, encoding) :
        encoding \in {e \in LayerEncodings :
                         "group" \in DOMAIN e => e["group"] = FieldEncoding("s")}}

ResolveEncodings ==
    /\ fnOut = <<>>
    /\ fnOut' = <<ResolveLayer(fnIn)>>
    /\ UNCHANGED <<fnIn, objVars>>

----------------------------------------------------------------------------
(* The query of a layer and the shared filter *)

\* SQL text is a sequence of characters; a predicate or a table name put
\* into it by replaceVars is one element.
Letters == {"a", "b", "d", "e", "f", "i", "l", "r", "t"}
IdentifierChars == Letters \cup {"0", "1", "_"}

FilterPlaceholder == <<"$", "f", "i", "l", "t", "e", "r">>

\* text.indexOf(pattern) >= 0
Contains(text, pattern) ==
    \E i \in 1..Len(text) :
        i + Len(pattern) - 1 <= Len(text) /\ SubSeq(text, i, i + Len(pattern) - 1) = pattern

\* The end of the identifier that starts at position i
RECURSIVE IdentifierEnd(_, _)
IdentifierEnd(text, i) ==
    IF i < Len(text) /\ text[i + 1] \in IdentifierChars THEN IdentifierEnd(text, i + 1) ELSE i

\* replaceVars from position i on: every $name is replaced by its value if
\* the variables have it and kept otherwise.
RECURSIVE replaceVarsFrom(_, _, _)
replaceVarsFrom(text, variables, i) ==
    IF i > Len(text) THEN <<>>
    ELSE IF text[i] = "$" /\ i < Len(text) /\ text[i + 1] \in Letters
         THEN LET j == IdentifierEnd(text, i + 1)
                  name == SubSeq(text, i + 1, j)
              IN  (IF name \in DOMAIN variables THEN variables[name] ELSE SubSeq(text, i, j))
                  \o replaceVarsFrom(text, variables, j + 1)
         ELSE <<text[i]>> \o replaceVarsFrom(text, variables, i + 1)

replaceVars(text, variables) == replaceVarsFrom(text, variables, 1)

\* Predicates the filter resolves to for a client; NoPredicate is null.
NoPredicate == "null"
Predicates == {"p1", "p2"}

\* The table of the chart context, and layer.from when it is not given
ContextTable == <<"table">>
NoFrom == <<>>

\* BuildContext.fromExpr of a custom SQL source
fromExpr(sql, predicate) ==
    replaceVars(sql, [name \in {<<"t", "a", "b", "l", "e">>, <<"f", "i", "l", "t", "e", "r">>} |->
                         IF name = <<"t", "a", "b", "l", "e">> THEN ContextTable
                         ELSE IF predicate # NoPredicate THEN <<predicate>> ELSE <<"(true)">>])

\* The client of a layer is bound to the shared filter.
hasFilter(layer) ==
    \/ layer.filter = "$filter"
    \/ layer.from # NoFrom /\ Contains(layer.from, FilterPlaceholder)

\* The query a layer's client issues for a predicate
LayerQuery(layer, predicate) ==
    [from |-> IF layer.from = NoFrom THEN ContextTable ELSE fromExpr(layer.from, predicate),
     where |-> IF layer.filter = "$filter" THEN predicate ELSE NoPredicate]

SqlTexts ==
    {<<"t">>,
     <<"$", "f", "i", "l", "t", "e", "r">>,
     <<"$", "f", "i", "l", "t", "e", "r", "e", "d">>,
     <<"$", "t", "a", "b", "l", "e">>,
     <<"$", "t", "a", "b", "l", "e", " ", "$", "f", "i", "l", "t", "e", "r">>}

FilterLayers ==
    {Layer("point", None, f, from, [a \in {"y"} |-> AggregateEncoding("count", None)]) :
        f \in {None, "$filter"}, from \in SqlTexts \cup {NoFrom}}

\* Updates of the shared filter followed
MaxUpdates == 2

\* buildLayer makes the client, which issues its first query with the
\* predicate the filter resolves to; the result is a function of the query.
BuildLayerClient ==
    /\ fnOut = <<>>
    /\ \E p \in Predicates \cup {NoPredicate} :
          LET q == LayerQuery(fnIn, IF hasFilter(fnIn) THEN p ELSE NoPredicate)
          IN  fnOut' = <<[selection |-> hasFilter(fnIn), predicate |-> p, updates |-> 0,
                          issued |-> 1, query |-> q, first |-> q, outputs |-> q]>>
    /\ UNCHANGED <<fnIn, objVars>>

\* The shared filter changes: a client bound to it issues its query again
\* and sets the layer's output from the result.
LayerFilterUpdate(p) ==
    /\ Returned
    /\ fnOut[1].updates < MaxUpdates
    /\ p # fnOut[1].predicate
    /\ fnOut' = <<IF fnOut[1].selection
                  THEN [fnOut[1] EXCEPT !.predicate = p, !.updates = @ + 1, !.issued = @ + 1,
                                        !.query = LayerQuery(fnIn, p),
                                        !.outputs = LayerQuery(fnIn, p)]
                  ELSE [fnOut[1] EXCEPT !.predicate = p, !.updates = @ + 1]>>
    /\ UNCHANGED <<fnIn, objVars>>

----------------------------------------------------------------------------
(* The bin domain of a quantitative aggregate *)

\* The bins inferBinning may give a linear scale: a bin size greater than
\* zero and a bin start.
BinStarts == -2..2
BinSizes == {1, 2, 3, 20}
Binnings == {[binStart |-> s, binSize |-> b] : s \in BinStarts, b \in BinSizes}

\* The forward and reverse maps of a linear scale leave a number as it is;
\* Math.floor of the quotient is the floor division.
valueToBinIndex(binning, x) == (x - binning.binStart) \div binning.binSize

binIndexToValue(binning, idx) == idx * binning.binSize + binning.binStart

\* The domain without the bin that holds the maximum
binDomainOccupiedStarts(stats, binning) ==
    <<binIndexToValue(binning, valueToBinIndex(binning, stats.min.n)),
      binIndexToValue(binning, valueToBinIndex(binning, stats.max.n))>>

\* domain of inferAggregate on a linear scale; a null minimum or maximum
\* counts as 0 in the subtraction.
binDomain(stats, binning) ==
    <<binIndexToValue(binning, valueToBinIndex(binning, stats.min.n)),
      binIndexToValue(binning, valueToBinIndex(binning, stats.max.n) + 1)>>

Scenario1Column == <<Num(1), Num(2), Num(3), Num(4), Num(5), Num(100)>>

DomainInputs ==
    {[column |-> c, binning |-> b] :
        c \in SeqsUpTo(NumericValues, MaxRows) \cup {Scenario1Column}, b \in Binnings}

InferDomain ==
    /\ fnOut = <<>>
    /\ fnOut' = <<[stats |-> QuantitativeStats(fnIn.column),
                   domain |-> binDomain(QuantitativeStats(fnIn.column), fnIn.binning)]>>
    /\ UNCHANGED <<fnIn, objVars>>

----------------------------------------------------------------------------
(* The displayed values of a nominal aggregate and their order *)

\* Texts of the levels of a string column; a text of the data may read like
\* one of the two labels.
OrderLevelNames == <<"a", "b", "(1 others)", "(null)">>

\* A row of the column: a text or null
TextRow(text) == [isNull |-> FALSE, text |-> text]
NullRow == [isNull |-> TRUE, text |-> ""]

\* The select expression of a nominal aggregate on one row
nominalSelect(info, row) ==
    IF ~row.isNull /\ row.text \in SeqToSet(info.scale.domain) THEN row.text
    ELSE IF row.isNull THEN NullRepr
    ELSE OtherRepr(info.numOtherLevels)

\* Array.indexOf: the index from 0 of the first occurrence, -1 without one
indexOf(seq, x) ==
    IF \E i \in 1..Len(seq) : seq[i] = x
    THEN (CHOOSE i \in 1..Len(seq) : seq[i] = x /\ \A j \in 1..(i - 1) : seq[j] # x) - 1
    ELSE -1

\* The place of a displayed value in the order of a nominal aggregate
nominalPlace(info, a) ==
    IF indexOf(info.scale.domain, a) < 0
    THEN Len(info.scale.domain) + indexOf(info.scale.specialValues, a)
    ELSE indexOf(info.scale.domain, a)

\* order of a nominal aggregate
nominalOrder(info, a, b) == nominalPlace(info, a) - nominalPlace(info, b)

OrderInputs ==
    {[counts |-> c, nullCount |-> n, binCount |-> b] :
        c \in [SeqToSet(OrderLevelNames) -> 0..MaxCount], n \in 0..1, b \in 1..2}

\* The rows of the column, one for each distinct value
DistinctRows(input) ==
    {TextRow(l) : l \in {n \in SeqToSet(OrderLevelNames) : input.counts[n] > 0}}
        \cup (IF input.nullCount > 0 THEN {NullRow} ELSE {})

\* The statistics of a column are collected, the aggregate is inferred, its
\* select expression is applied to the rows and the displayed values are
\* compared.
InferNominalOrder ==
    /\ fnOut = <<>>
    /\ LET info == inferAggregateNominal(
                       NominalStatsOf(OrderLevelNames, fnIn.counts, fnIn.nullCount), fnIn.binCount)
           shown == [r \in DistinctRows(fnIn) |-> nominalSelect(info, r)]
           values == {shown[r] : r \in DistinctRows(fnIn)}
       IN  fnOut' = <<[info |-> info, shown |-> shown,
                       order |-> [p \in values \X values |-> nominalOrder(info, p[1], p[2])]]>>
    /\ UNCHANGED <<fnIn, objVars>>

----------------------------------------------------------------------------
(* The persisted state of the viewer *)

\* A property of a persisted state: present with a value, or absent
Present(v) == [present |-> TRUE, v |-> v]
Absent == [present |-> FALSE]

\* state.property ?? fallback
OrElse(property, fallback) == IF property.present THEN property.v ELSE fallback

ChartIds == {"1", "2"}

\* The state of a chart: a selection, or none
ChartStateValues == {"brush", "null"}

\* A predicate text: the conjunction of the terms, null without a term
PredicateText(terms) == [isNull |-> terms = {}, terms |-> terms]

EmbeddingAtlasStates ==
    {[version |-> v, charts |-> c, chartStates |-> cs, layout |-> l, layoutStates |-> ls,
      predicate |-> p] :
        v \in {Absent, Present("0.7")},
        c \in {Absent} \cup {Present(ids) : ids \in SUBSET ChartIds},
        cs \in {Absent} \cup {Present({[id |-> "1", value |-> s]}) : s \in ChartStateValues}
                         \cup {Present({[id |-> "1", value |-> "brush"], [id |-> "2", value |-> "brush"]})},
        l \in {Absent, Present("list"), Present("dashboard")},
        ls \in {Absent, Present("grid")},
        p \in {Absent} \cup {Present(PredicateText(t)) : t \in SUBSET ChartIds}}

\* The component before it is mounted
NewComponent ==
    [charts |-> {}, chartStates |-> {}, layout |-> "list", layoutStates |-> "none",
     initialized |-> FALSE, loadedPredicate |-> Absent]

\* A loadState that also takes the predicate of the persisted state
loadStateWithPredicate(component, persisted) ==
    IF ~persisted.version.present THEN component
    ELSE [component EXCEPT !.charts = OrElse(persisted.charts, {}),
                           !.chartStates = OrElse(persisted.chartStates, {}),
                           !.layout = OrElse(persisted.layout, "list"),
                           !.layoutStates = OrElse(persisted.layoutStates, "none"),
                           !.loadedPredicate = persisted.predicate]

loadState(component, persisted) ==
    IF ~persisted.version.present THEN component
    ELSE [component EXCEPT !.charts = OrElse(persisted.charts, {}),
                           !.chartStates = OrElse(persisted.chartStates, {}),
                           !.layout = OrElse(persisted.layout, "list"),
                           !.layoutStates = OrElse(persisted.layoutStates, "none")]

\* The charts defaultCharts gives the table
DefaultChartIds == {"1"}

\* onMount with an initial state
Mount(initialState) ==
    LET loaded == loadState(NewComponent, initialState)
    IN  [loaded EXCEPT !.charts = IF loaded.charts = {} THEN DefaultChartIds ELSE @,
                       !.initialized = TRUE]

\* The content of the shared filter: one clause for each chart shown whose
\* state holds a selection, and one for a predicate taken from outside the
\* chart states.
crossFilterClauses(component) ==
    {s.id : s \in {t \in component.chartStates : t.id \in component.charts /\ t.value # "null"}}
        \cup (IF component.loadedPredicate.present THEN component.loadedPredicate.v.terms ELSE {})

currentPredicate(component) == PredicateText(crossFilterClauses(component))

\* The state the component emits
EmittedState(component) ==
    [version |-> Present("0.7"),
     charts |-> Present(component.charts),
     chartStates |-> Present(component.chartStates),
     layout |-> Present(component.layout),
     layoutStates |-> Present(component.layoutStates),
     predicate |-> Present(currentPredicate(component))]

\* Two persisted states that differ at most in their predicate
StatePairs ==
    {<<s, [s EXCEPT !.predicate = p]>> :
        s \in EmbeddingAtlasStates,
        p \in {Absent} \cup {Present(PredicateText(t)) : t \in SUBSET ChartIds}}

\* Two components are mounted, one with each state.
LoadStates ==
    /\ fnOut = <<>>
    /\ fnOut' = <<[a |-> Mount(fnIn[1]), b |-> Mount(fnIn[2]), emitted |-> <<>>]>>
    /\ UNCHANGED <<fnIn, objVars>>

\* The effect that emits the state of both components runs.
EmitStates ==
    /\ Returned
    /\ fnOut[1].emitted = <<>>
    /\ fnOut' = <<[fnOut[1] EXCEPT !.emitted = <<EmittedState(fnOut[1].a), EmittedState(fnOut[1].b)>>]>>
    /\ UNCHANGED <<fnIn, objVars>>

----------------------------------------------------------------------------
(* Default charts *)

\* columnDescriptions of the table: the name and the type of a column, with
\* its number of distinct values.
ColumnDesc(name, jsType, distinct) == [name |-> name, jsType |-> jsType, distinct |-> distinct]

ColumnKinds ==
    {<<"null", 2>>, <<"string", 1>>, <<"string", 2>>, <<"string", 1001>>,
     <<"string[]", 2>>, <<"number", 2>>, <<"number", 11>>}

Tables ==
    {<<ColumnDesc("a", ka[1], ka[2]), ColumnDesc("b", kb[1], kb[2]), ColumnDesc("__row", "number", 11)>> :
        ka \in ColumnKinds, kb \in ColumnKinds}

VisibleColumns(columns) == SelectSeq(columns, LAMBDA x : x.name \notin {"__row"})

\* A chart of the list: its type, its title and its field
ChartOf(type, title, field) == [type |-> type, title |-> title, field |-> field]

OverrideSpec == ChartOf("override", "Override", "a")

DefaultChartsConfigs ==
    {[include |-> i, exclude |-> e, override |-> o, table |-> t] :
        i \in {Absent} \cup {Present(s) : s \in SUBSET {"a", "b"}},
        e \in {Absent} \cup {Present(s) : s \in SUBSET {"a", "b"}},
        o \in {Absent, Present("null"), Present("spec")},
        t \in BOOLEAN}

Projections == {Absent, Present([x |-> "a", y |-> "a"])}

\* The chart of one column, or none
ColumnChart(item, config, exclude) ==
    IF item.jsType = "null" THEN <<>>
    ELSE IF config.include.present /\ item.name \notin config.include.v THEN <<>>
    ELSE IF item.name \in exclude THEN <<>>
    ELSE IF config.override.present /\ item.name = "a"
         THEN IF config.override.v # "null" THEN <<OverrideSpec>> ELSE <<>>
    ELSE IF item.distinct <= 1 THEN <<>>
    ELSE CASE item.jsType = "string" ->
                  IF item.distinct <= 1000
                  THEN <<ChartOf("count-plot", item.name, item.name)>> ELSE <<>>
           [] item.jsType = "string[]" -> <<ChartOf("count-plot-list", item.name, item.name)>>
           [] item.jsType = "number" ->
                  IF item.distinct <= 10
                  THEN <<ChartOf("count-plot", item.name, item.name)>>
                  ELSE <<ChartOf("histogram", item.name, item.name)>>
           [] OTHER -> <<>>

RECURSIVE ColumnCharts(_, _, _, _)
ColumnCharts(columns, i, config, exclude) ==
    IF i > Len(columns) THEN <<>>
    ELSE ColumnChart(columns[i], config, exclude) \o ColumnCharts(columns, i + 1, config, exclude)

defaultCharts(table, projection, config) ==
    LET columns == VisibleColumns(table)
        exclude == OrElse(config.exclude, {})
                       \cup (IF projection.present THEN {projection.v.x, projection.v.y} ELSE {})
    IN  (IF projection.present THEN <<ChartOf("embedding", "Embedding", projection.v.x)>> ELSE <<>>)
            \o <<ChartOf("predicates", "SQL Predicates", "")>>
            \o (IF config.table THEN <<ChartOf("table", "Table", "")>> ELSE <<>>)
            \o ColumnCharts(columns, 1, config, exclude)

DefaultChartsInputs ==
    {[table |-> t, projection |-> p, config |-> c] :
        t \in Tables, p \in Projections, c \in DefaultChartsConfigs}

DefaultCharts ==
    /\ fnOut = <<>>
    /\ fnOut' = <<defaultCharts(fnIn.table, fnIn.projection, fnIn.config)>>
    /\ UNCHANGED <<fnIn, objVars>>

----------------------------------------------------------------------------
(* OccupancyMap *)

\* The rows a new map holds (128 in the program)
InitialRowCount == 2

\* Calls of fill and set on one map
MaxFills == 2

\* A row is the set of its bits that are 1, of the 32 bits of a Uint32.
WordBits == 0..31

\* 1 << k: the shift count is taken modulo 32
shiftOne(k) == {k % 32}

\* ((1 << width) - 1) << x for 1 <= width <= 32 and 0 <= x <= 31: 1 << 32
\* is 1, so the mask of width 32 is 0.
rectMask(x, width) ==
    IF width % 32 = 0 THEN {}
    ELSE {b + x : b \in 0..((width % 32) - 1)} \cap WordBits

RECURSIVE grownLength(_, _)
grownLength(length, count) ==
    IF length >= count THEN length ELSE grownLength((3 * length + 1) \div 2, count)

ensureSize(rows, count) ==
    IF Len(rows) < count
    THEN rows \o [i \in 1..(grownLength((3 * Len(rows) + 1) \div 2, count) - Len(rows)) |-> {}]
    ELSE rows

OccupancyMap(numColumns) == [numColumns |-> numColumns, rows |-> [i \in 1..InitialRowCount |-> {}]]

\* get(x, y)
getBit(map, x, y) ==
    IF x < 0 \/ x >= map.numColumns \/ y < 0 \/ y >= Len(map.rows) THEN FALSE
    ELSE (map.rows[y + 1] \cap shiftOne(x)) # {}

\* set(x, y, value)
setBit(map, x, y, value) ==
    IF x < 0 \/ x >= map.numColumns \/ y < 0 THEN map
    ELSE LET rows == ensureSize(map.rows, y + 1)
         IN  [map EXCEPT !.rows =
                 [rows EXCEPT ![y + 1] = IF value = 0 THEN @ \ shiftOne(x)
                                         ELSE IF value = 1 THEN @ \cup shiftOne(x) ELSE @]]

\* The rectangle after the clipping that check and fill begin with
clipRect(map, x, y, width, height) ==
    LET w1 == IF x < 0 THEN width + x ELSE width
        x1 == IF x < 0 THEN 0 ELSE x
        h1 == IF y < 0 THEN height + y ELSE height
        y1 == IF y < 0 THEN 0 ELSE y
        w2 == IF x1 + w1 > map.numColumns THEN map.numColumns - x1 ELSE w1
    IN  [x |-> x1, y |-> y1, width |-> w2, height |-> h1]

check(map, x, y, width, height) ==
    LET r == clipRect(map, x, y, width, height)
    IN  IF r.width <= 0 \/ r.height <= 0 THEN TRUE
        ELSE ~\E dy \in 0..(r.height - 1) :
                 /\ r.y + dy < Len(map.rows)
                 /\ (map.rows[r.y + dy + 1] \cap rectMask(r.x, r.width)) # {}

fill(map, x, y, width, height) ==
    LET r == clipRect(map, x, y, width, height)
    IN  IF r.width <= 0 \/ r.height <= 0 THEN map
        ELSE LET rows == ensureSize(map.rows, r.y + r.height)
             IN  [map EXCEPT !.rows =
                     [i \in 1..Len(rows) |->
                         IF i - 1 >= r.y /\ i - 1 < r.y + r.height
                         THEN rows[i] \cup rectMask(r.x, r.width) ELSE rows[i]]]

\* find(width, height) for valid dimensions: the first place in row order
\* that check accepts, the row after the last one without such a place.
find(map, width, height) ==
    LET places == {p \in (0..(Len(map.rows) - 1)) \X (0..(map.numColumns - width)) :
                       check(map, p[2], p[1], width, height)}
    IN  IF places = {} THEN [x |-> 0, y |-> Len(map.rows)]
        ELSE LET p == CHOOSE p \in places :
                          \A q \in places : p[1] < q[1] \/ (p[1] = q[1] /\ p[2] <= q[2])
             IN  [x |-> p[2], y |-> p[1]]

\* Arguments of the calls
ColumnCounts == {2, 32}
Xs(numColumns) == {-1, 0, 1, numColumns - 1}
Ys == -1..2
Widths(numColumns) == {0, 1, 2, numColumns}
Heights == 0..2

\* A behaviour ends with one call of check or find; neither changes the map.
NoCall == [op |-> "none", x |-> 0, y |-> 0, width |-> 0, height |-> 0, ok |-> FALSE]

\* new OccupancyMap(numColumns)
Construct ==
    /\ fnOut = <<>>
    /\ fnOut' = <<[map |-> OccupancyMap(fnIn), fills |-> 0, call |-> NoCall]>>
    /\ UNCHANGED <<fnIn, objVars>>

Fill(x, y, width, height) ==
    /\ Returned
    /\ fnOut[1].call = NoCall
    /\ fnOut[1].fills < MaxFills
    /\ fnOut' = <<[map |-> fill(fnOut[1].map, x, y, width, height),
                   fills |-> fnOut[1].fills + 1, call |-> NoCall]>>
    /\ UNCHANGED <<fnIn, objVars>>

Set(x, y, value) ==
    /\ Returned
    /\ fnOut[1].call = NoCall
    /\ fnOut[1].fills < MaxFills
    /\ fnOut' = <<[map |-> setBit(fnOut[1].map, x, y, value),
                   fills |-> fnOut[1].fills + 1, call |-> NoCall]>>
    /\ UNCHANGED <<fnIn, objVars>>

Check(x, y, width, height) ==
    /\ Returned
    /\ fnOut[1].call = NoCall
    /\ fnOut' = <<[fnOut[1] EXCEPT !.call =
                      [op |-> "check", x |-> x, y |-> y, width |-> width, height |-> height,
                       ok |-> check(fnOut[1].map, x, y, width, height)]]>>
    /\ UNCHANGED <<fnIn, objVars>>

Find(width, height) ==
    /\ Returned
    /\ fnOut[1].call = NoCall
    /\ width > 0 /\ height > 0 /\ width <= fnOut[1].map.numColumns
    /\ LET p == find(fnOut[1].map, width, height)
       IN  fnOut' = <<[fnOut[1] EXCEPT !.call =
                          [op |-> "find", x |-> p.x, y |-> p.y, width |-> width, height |-> height,
                           ok |-> TRUE]]>>
    /\ UNCHANGED <<fnIn, objVars>>

----------------------------------------------------------------------------
(* The buckets of a quantitative aggregate and their predicates *)

\* The forward and reverse maps of the scale of a binning: the identity on
\* a linear scale, the logarithm and the power on a log scale (base 2 here,
\* on the powers of 2).
scaleForward(type, x) == IF type = "log" THEN CHOOSE k \in 0..2 : 2^k = x ELSE x

scaleReverse(type, y) == IF type = "log" THEN 2^y ELSE y

\* The values of a column on each scale, and the binnings of the scale
BucketValues(type) ==
    IF type = "log"
    THEN {Num(-1), Num(0), Num(1), Num(2), Num(4), NaN, Null}
    ELSE {Num(n) : n \in -2..4} \cup {NaN, Null}

BucketBinnings(type) ==
    IF type = "log" THEN {[binStart |-> 0, binSize |-> s] : s \in {1, 2}} ELSE Binnings

\* select of a quantitative aggregate on one row: the bin index, null for a
\* value that is not finite or, on a log scale, not positive.
quantitativeSelect(type, binning, v) ==
    IF QuantitativeBucket(type, v) = "bin"
    THEN Num(valueToBinIndex(binning, scaleForward(type, v.n)))
    ELSE Null

\* field of a quantitative aggregate: the displayed value of a bin index
quantitativeField(type, binning, idx) ==
    IF idx = Null THEN Str("n/a")
    ELSE Interval(scaleReverse(type, binIndexToValue(binning, idx.n)),
                  scaleReverse(type, binIndexToValue(binning, idx.n + 1)))

\* SQL: x BETWEEN lo AND hi holds for lo <= x <= hi and for no x that is
\* null or not a number.
isBetween(x, lo, hi) == IsFiniteNumber(x) /\ lo <= x.n /\ x.n <= hi

\* valueToPredicate(v) on the row x
valueToPredicate(v, x) ==
    IF v.t = "string"
    THEN v.s = "n/a" /\ ~IsFiniteNumber(x)
    ELSE isBetween(x, IF v.n < v.m THEN v.n ELSE v.m, IF v.n < v.m THEN v.m ELSE v.n)

BucketInputs ==
    {[type |-> t, binning |-> b, column |-> c] :
        t \in {"linear"}, b \in BucketBinnings("linear"), c \in SUBSET BucketValues("linear")}
    \cup
    {[type |-> t, binning |-> b, column |-> c] :
        t \in {"log"}, b \in BucketBinnings("log"), c \in SUBSET BucketValues("log")}

\* The rows of a column are given their buckets, and the predicate of every
\* displayed bucket is applied to the rows.
SelectBuckets ==
    /\ fnOut = <<>>
    /\ LET bucket == [x \in fnIn.column |->
                         quantitativeField(fnIn.type, fnIn.binning,
                                           quantitativeSelect(fnIn.type, fnIn.binning, x))]
           displayed == {bucket[x] : x \in fnIn.column}
       IN  fnOut' = <<[bucket |-> bucket,
                       selected |-> [v \in displayed |-> {x \in fnIn.column : valueToPredicate(v, x)}]]>>
    /\ UNCHANGED <<fnIn, objVars>>

----------------------------------------------------------------------------
(* The list layout and its toggle buttons *)

\* Clicks on the toggle buttons
MaxClicks == 2

LayoutSections == {"embedding", "table", "chart"}

\* The property of the layout state that a section's toggle reads and writes
ShowProperty == [s \in LayoutSections |->
                    CASE s = "embedding" -> "showEmbedding" [] s = "table" -> "showTable"
                      [] OTHER -> "showCharts"]

ListLayoutStates == [{"showEmbedding", "showTable", "showCharts"} -> {Absent, Present(TRUE), Present(FALSE)}]

\* getSections(charts): whether a section has charts; there are always
\* charts of the chart section.
SectionCharts == {[s \in LayoutSections |-> IF s = "chart" THEN TRUE ELSE IF s = "table" THEN t ELSE e] :
                      t \in BOOLEAN, e \in BOOLEAN}

\* ListLayoutOptions: the toggle of a section is shown
toggleShown(sections, section) == section = "embedding" => sections["embedding"]

\* ListLayoutOptions: the checked state the toggle of a section displays
toggleChecked(layoutState, section) ==
    OrElse(layoutState[ShowProperty[section]], section = "embedding")

\* ListLayout: hasEmbedding, hasTable, hasChart
sectionVisible(sections, layoutState, section) ==
    CASE section = "embedding" -> sections["embedding"] /\ OrElse(layoutState["showEmbedding"], TRUE)
      [] section = "table" -> sections["table"] /\ OrElse(layoutState["showTable"], TRUE)
      [] OTHER -> OrElse(layoutState["showCharts"], TRUE)

\* A click on a toggle button sets the negation of the checked state it
\* displays; onStateChange merges the property into the layout state.
clickToggle(layoutState, section) ==
    [layoutState EXCEPT ![ShowProperty[section]] = Present(~toggleChecked(layoutState, section))]

ListLayoutInputs == {[sections |-> s, state |-> st] : s \in SectionCharts, st \in ListLayoutStates}

\* The list layout and its options are shown with a layout state.
ShowLayout ==
    /\ fnOut = <<>>
    /\ fnOut' = <<[state |-> fnIn.state, clicks |-> 0, clicked |-> "none", wasVisible |-> FALSE]>>
    /\ UNCHANGED <<fnIn, objVars>>

ClickToggle(section) ==
    /\ Returned
    /\ fnOut[1].clicks < MaxClicks
    /\ toggleShown(fnIn.sections, section)
    /\ fnOut' = <<[state |-> clickToggle(fnOut[1].state, section),
                   clicks |-> fnOut[1].clicks + 1,
                   clicked |-> section,
                   wasVisible |-> sectionVisible(fnIn.sections, fnOut[1].state, section)]>>
    /\ UNCHANGED <<fnIn, objVars>>

----------------------------------------------------------------------------
(* Specifications *)

PredNext ==
    \/ PredReady
    \/ PredSync
    \/ \E value \in PredItems, shift \in BOOLEAN : PredToggle(value, shift)
    \/ PredDestroy

Next ==
    \/ \E o \in SpecObjects : SetSpec(o)
    \/ \E p \in pending : StatsDone(p)
    \/ SyncState
    \/ \E key \in SelKeys, v \in BrushValues \cup {None} : Brush(key, v)
    \/ Destroy
    \/ \E id \in inflight, d \in Data : QueryResult(id, d)
    \/ ResetFilter

Spec == Init /\ [][Next]_vars

\* The spec chart next to a predicates chart, for the global reset; the
\* layer query results, which touch neither the filter nor the chart
\* states, are left out.
NextReset ==
    \/ \E o \in SpecObjects : SetSpec(o)
    \/ \E p \in pending : StatsDone(p)
    \/ SyncState
    \/ \E key \in SelKeys, v \in BrushValues \cup {None} : Brush(key, v)
    \/ Destroy
    \/ PredNext
    \/ ResetFilter

SpecReset == InitReset /\ [][NextReset]_vars

NextBasic ==
    \/ \E c \in CountCharts : CountReady(c)
    \/ \E c \in CountCharts : CountSync(c)
    \/ \E c \in CountCharts, value \in Items, shift \in BOOLEAN : CountToggle(c, value, shift)
    \/ \E c \in CountCharts : CountReinit(c)
    \/ \E c \in CountCharts : CountDestroy(c)
    \/ PredNext
    \/ ResetFilter

SpecBasic == InitBasic /\ [][NextBasic]_vars

\* The spec chart with the statistics requested through the shared cache.
NextStats ==
    \/ \E o \in SpecObjects : StatsSetSpec(o)
    \/ \E key \in StatKeys, ok \in BOOLEAN : StatsQueryDone(key, ok)
    \/ \E p \in pending : StatsResume(p)
    \/ \E p \in pending : StatsReject(p)
    \/ SyncState
    \/ \E key \in SelKeys, v \in BrushValues \cup {None} : Brush(key, v)
    \/ Destroy

SpecStats == Init /\ [][NextStats]_vars

\* A chart spec of a few layers is compiled and its queries answered.
InitChart == InitCall(ChartSpecs)

NextChart == BuildChart

SpecChart == InitChart /\ [][NextChart]_vars

\* The statistics of a numeric column are collected and binned.
InitQuantitative == InitCall(QuantitativeInputs)

NextQuantitative == InferQuantitative

SpecQuantitative == InitQuantitative /\ [][NextQuantitative]_vars

\* The statistics of a string column are collected and its levels clipped.
InitNominal == InitCall(NominalInputs)

NextNominal == InferNominal

SpecNominal == InitNominal /\ [][NextNominal]_vars

\* A table is stacked.
InitStack == InitCall(StackInputs)

NextStack == Stack

SpecStack == InitStack /\ [][NextStack]_vars

\* The rows of a table are completed to a cross product.
InitCross == InitCall(CrossInputs)

NextCross == CompleteCross

SpecCross == InitCross /\ [][NextCross]_vars

\* The scale of a quantitative channel is inferred.
InitScale == InitCall(ScaleInputs)

NextScale == InferScale

SpecScale == InitScale /\ [][NextScale]_vars

\* The scale hints of a channel are merged.
InitHints == InitCall(HintsTriples)

NextHints == MergeHints

SpecHints == InitHints /\ [][NextHints]_vars

\* The encodings of a layer are resolved.
InitLayer == InitCall(LayerInputs)

NextLayer == ResolveEncodings

SpecLayer == InitLayer /\ [][NextLayer]_vars

\* A layer with a query is built and the shared filter is updated.
InitFilter == InitCall(FilterLayers)

NextFilter ==
    \/ BuildLayerClient
    \/ \E p \in Predicates \cup {NoPredicate} : LayerFilterUpdate(p)

SpecFilter == InitFilter /\ [][NextFilter]_vars

\* The bin domain of a numeric column is inferred.
InitDomain == InitCall(DomainInputs)

NextDomain == InferDomain

SpecDomain == InitDomain /\ [][NextDomain]_vars

\* The displayed values of a string column are ordered.
InitOrder == InitCall(OrderInputs)

NextOrder == InferNominalOrder

SpecOrder == InitOrder /\ [][NextOrder]_vars

\* Two persisted states are loaded and the state is emitted.
InitPersisted == InitCall(StatePairs)

NextPersisted ==
    \/ LoadStates
    \/ EmitStates

SpecPersisted == InitPersisted /\ [][NextPersisted]_vars

\* The default charts of a table are listed.
InitDefaults == InitCall(DefaultChartsInputs)

NextDefaults == DefaultCharts

SpecDefaults == InitDefaults /\ [][NextDefaults]_vars

\* A map is made, filled and queried.
InitOccupancy == InitCall(ColumnCounts)

NextOccupancy ==
    \/ Construct
    \/ \E x \in Xs(fnIn), y \in Ys, width \in Widths(fnIn), height \in Heights : Fill(x, y, width, height)
    \/ \E x \in Xs(fnIn), y \in Ys, value \in 0..1 : Set(x, y, value)
    \/ \E x \in Xs(fnIn), y \in Ys, width \in Widths(fnIn), height \in Heights : Check(x, y, width, height)
    \/ \E width \in Widths(fnIn), height \in Heights : Find(width, height)

SpecOccupancy == InitOccupancy /\ [][NextOccupancy]_vars

\* The rows of a numeric column are put into buckets and selected by bucket.
InitBuckets == InitCall(BucketInputs)

NextBuckets == SelectBuckets

SpecBuckets == InitBuckets /\ [][NextBuckets]_vars

\* The list layout is shown and its toggle buttons are clicked.
InitListLayout == InitCall(ListLayoutInputs)

NextListLayout ==
    \/ ShowLayout
    \/ \E section \in LayoutSections : ClickToggle(section)

SpecListLayout == InitListLayout /\ [][NextListLayout]_vars

----------------------------------------------------------------------------
(* Properties *)

RuntimeClauses(f) == {j \in 1..Len(f) : f[j].source = RuntimeSource}

NullWrites(w) == {i \in 1..Len(w) : w[i].predicate = NullPredicate /\ w[i].value = NullValue}

\* C1: the completion of a setSpec call that was superseded by a later call
\* with a non-deep-equal spec is discarded: it builds no layers, creates no
\* clients, subscribes nothing, installs no cleanup function and writes
\* nothing to outputs, selections or the shared filter.
C1_StaleCompletionDiscarded ==
    [][(lastOp'.name = "statsDone" /\ lastOp'.flag)
        => /\ UNCHANGED <<builds, clients, cleanupFn, outputs, selections, filter, inflight>>
           /\ writes' = <<>>]_vars

\* C2: when the spec of a built chart is replaced or the runtime is destroyed
\* while the filter holds a clause of this chart, a clause with predicate=null
\* and value=null is written for the runtime's source before any of its
\* clients is destroyed; the filter never names a destroyed client of the chart.
C2_ClearedBeforeRelease ==
    /\ [](\A i \in 1..Len(destroyLog) :
            clients[destroyLog[i].client].chart = "spec" => ~destroyLog[i].referenced)
    /\ [](\A j \in 1..Len(filter) : \A id \in filter[j].clients :
            clients[id].chart = "spec" => clients[id].alive)
    /\ [][(/\ lastOp'.name \in {"setSpec", "destroy"}
           /\ cleanupFn # 0
           /\ cleanupFn' # cleanupFn
           /\ RuntimeClauses(filter) # {})
          => /\ \E i \in NullWrites(writes') : writes'[i].source = RuntimeSource
             /\ RuntimeClauses(filter') = {}]_vars

\* C2 witness: a destroy or spec replacement that wrote the clearing clause
\* and then destroyed the clients of the build.
C2_Witness ==
    /\ lastOp.name \in {"setSpec", "destroy"}
    /\ \E i \in NullWrites(writes) : writes[i].source = RuntimeSource
    /\ Len(destroyLog) > 0
    /\ \A i \in 1..Len(destroyLog) : ~destroyLog[i].referenced

\* C3: after destroy() the filter holds no clause whose source is the runtime
\* and no clause whose clients contain a client created by the runtime.
C3_NoClauseAfterDestroy ==
    ~mounted =>
        /\ RuntimeClauses(filter) = {}
        /\ \A j \in 1..Len(filter) : \A id \in filter[j].clients : clients[id].chart # "spec"

\* C3 witness: a chart with one filter-participating and one other layer is
\* destroyed while its selection is active: the clause is cleared and both
\* clients are destroyed.
C3_Witness ==
    /\ ~mounted
    /\ lastOp.name = "destroy"
    /\ \E i \in NullWrites(writes) : writes[i].source = RuntimeSource
    /\ Len(destroyLog) = 2
    /\ clients[destroyLog[1].client].hasFilter # clients[destroyLog[2].client].hasFilter

\* C4: the filter holds at most one clause per (chart, selection name).
C4_OneClausePerSelection ==
    \A i, j \in 1..Len(filter) :
        (filter[i].chart = filter[j].chart /\ filter[i].sel = filter[j].sel) => i = j

\* C4 witness: one handler wrote two non-null clauses of the chart and the
\* filter holds one clause of the chart.
C4_Witness ==
    /\ Cardinality({i \in 1..Len(writes) : /\ writes[i].source = RuntimeSource
                                            /\ writes[i].predicate # NullPredicate}) >= 2
    /\ Cardinality(RuntimeClauses(filter)) = 1

\* The clause the runtime derives for a named selection with a value.
DerivedClauseHeld(f, key, value) ==
    \E j \in RuntimeClauses(f) :
        /\ f[j].sel = key
        /\ f[j].value = [isNull |-> FALSE, items |-> <<value>>]
        /\ f[j].predicate = [kind |-> "and", args |-> <<key, value>>]

\* C5: after the runtime has processed a chart-state change, the filter
\* holds, for every named selection of the spec with a non-empty value, a
\* clause of this chart with that value and its derived predicate, and for
\* every named selection with an empty value no clause with a predicate.
C5_EveryActiveSelectionHeld ==
    (lastOp.name = "stateSet" /\ cleanupFn # 0) =>
        \A key \in SeqToSet(SelectionKeys(Cur)) :
            IF state.val[key] # None
            THEN DerivedClauseHeld(filter, key, state.val[key])
            ELSE \A j \in RuntimeClauses(filter) : filter[j].sel # key

\* C6: a layer query result delivered after the runtime was destroyed or
\* after the layer's spec was replaced changes neither the outputs, nor the
\* selections, nor the shared filter.
C6_LateResultDiscarded ==
    [][(lastOp'.name = "queryResult" /\ (~mounted \/ ~clients[lastOp'.n].alive))
        => UNCHANGED <<outputs, selections, filter>>]_vars

\* C7: no clause of a destroyed count plot, list count plot or predicates
\* chart remains in the shared filter, and the teardown of a chart that is
\* re-initialised leaves no clause of it behind.
C7_TeardownClearsClause ==
    \A j \in 1..Len(filter) :
        /\ bphase[filter[j].chart] # "destroyed"
        /\ bphase[filter[j].chart] # "loading"

\* The local selection state of chart c is empty after the step.
ChartSelectionEmptyNext(c) ==
    IF c = "spec" THEN chartState' = EmptyState
    ELSE IF c = "pr" THEN bsel'[c].items = <<>>
    ELSE bsel'[c].isNull

\* C8: the global clear-filters action resets the source of every clause in
\* the filter, the local selection state of each of these charts becomes
\* empty, and once the following reactive pass has run the filter holds no
\* clause with a non-null predicate.
C8_ResetClearsAll ==
    /\ [][lastOp'.name = "resetFilter"
            => \A j \in 1..Len(filter) : ChartSelectionEmptyNext(filter[j].chart)]_vars
    /\ []((lastOp.name = "resetFilter" \/ (lastOp.name \in SyncOps /\ lastOp.flag /\ ~EffectPending))
            => \A j \in 1..Len(filter) : filter[j].predicate = NullPredicate)

\* C9: in a count plot, clicking x on an empty selection selects [x];
\* shift-clicking the selected x gives the selection []; and the clause
\* written for the selection [] has predicate=null.
C9_EmptySelectionIsNoFilter ==
    [][/\ (lastOp'.name = "countToggle"
             /\ (bsel[lastOp'.chart].isNull \/ bsel[lastOp'.chart].items = <<>>))
          => bsel'[lastOp'.chart] = [isNull |-> FALSE, items |-> <<lastOp'.arg>>]
       /\ (lastOp'.name = "countToggle" /\ lastOp'.flag
             /\ bsel[lastOp'.chart] = [isNull |-> FALSE, items |-> <<lastOp'.arg>>])
          => bsel'[lastOp'.chart] = EmptySelection
       /\ (lastOp'.name \in {"countSync", "countReady"} /\ bsel'[lastOp'.chart] = EmptySelection)
          => \A i \in 1..Len(writes') : writes'[i].predicate = NullPredicate]_vars

\* C10: setSpec with a spec deep-equal to the current spec, built or still
\* pending, returns without cleanup, query, client or filter write.
C10_DeepEqualNoOp ==
    [][(lastOp'.name = "setSpec" /\ spec # None /\ ContentOf[lastOp'.arg] = ContentOf[spec])
        => /\ UNCHANGED <<spec, cleanupFn, outputs, selections, state, chartState, stateDirty,
                          pending, nCalls, builds, clients, inflight, filter>>
           /\ writes' = <<>>
           /\ destroyLog' = <<>>]_vars

\* C10 witness: setSpec was called with another object deep-equal to the
\* spec of a built chart whose selection is active.
C10_Witness ==
    /\ lastOp.name = "setSpec"
    /\ spec # None
    /\ lastOp.arg # spec
    /\ ContentOf[lastOp.arg] = ContentOf[spec]
    /\ cleanupFn # 0
    /\ RuntimeClauses(filter) # {}

\* C11: after a statistics query for a field fails, the setSpec calls that
\* await it reject without building, nothing issues a query by itself, and a
\* later setSpec with a changed spec that uses the same source and field
\* issues the statistics query for it again.
C11_FailedStatsRetried ==
    [][/\ (lastOp'.name \in {"statsQuery", "statsRejected", "statsDone"}) => issued' = issued
       /\ (lastOp'.name = "statsRejected")
             => UNCHANGED <<builds, clients, cleanupFn, outputs, selections, filter>>
       /\ (lastOp'.name = "setSpec" /\ ~lastOp'.flag)
             => \A k \in StatKeysOf[ContentOf[lastOp'.arg]] :
                    cache[k] = "rejected" => issued'[k] = issued[k] + 1]_vars

\* The layers of a spec that fail validation: an invalid mark, or a bar or
\* area with an invalid orientation.
InvalidLayer(layer) ==
    \/ layer.mark \notin {"bar", "point", "rect", "line", "area", "rule"}
    \/ /\ layer.mark \in {"bar", "area"}
       /\ layer.orientation \notin {None, "horizontal", "vertical"}

\* The encodings of a layer that fail validation: an aggregate other than
\* count that lacks its field, or an aggregate name that does not exist.
InvalidEncoding(encoding) ==
    /\ encoding.aggregate # None
    /\ \/ encoding.aggregate \in (numericalAggregates \cup {"ecdf-value"}) /\ encoding.field = None
       \/ encoding.aggregate \notin (numericalAggregates \cup {"count", "ecdf-value", "ecdf-rank"})

\* C12: building and updating a chart whose spec has an aggregate without
\* its field, an unknown aggregate or a layer with an invalid mark or
\* orientation never throws; every such encoding or layer logs a warning and
\* is left out, every other layer has its output and every other encoding
\* its column.
C12_ValidationNeverThrows ==
    Returned =>
        LET r == fnOut[1]
        IN  /\ ~r.threw
            /\ r.updateThrew = {}
            /\ \A i \in 1..Len(fnIn) :
                  /\ (i \in r.layers) <=> ~InvalidLayer(fnIn[i])
                  /\ InvalidLayer(fnIn[i]) => r.warnings[i] # {}
                  /\ \A a \in DOMAIN fnIn[i].encoding :
                        /\ InvalidEncoding(fnIn[i].encoding[a]) => r.warnings[i] # {}
                        /\ ~InvalidLayer(fnIn[i]) =>
                              (a \in r.columns[i] <=> ~InvalidEncoding(fnIn[i].encoding[a]))

\* C13: "n/a" is a special value of the scale of a quantitative aggregate
\* exactly when some value of the column falls in the "n/a" bucket.
C13_NAIffSomeValueNA ==
    Returned =>
        (("n/a" \in SeqToSet(fnOut[1].scale.specialValues))
            <=> \E i \in 1..Len(fnIn.column) : fnOut[1].buckets[i] = "n/a")

\* The levels of a column that are not in the domain
ExcludedLevels == {l \in SeqToSet(LevelNames) : fnIn.counts[l] > 0} \ SeqToSet(fnOut[1].scale.domain)

RECURSIVE SumOver(_, _)
SumOver(f, S) ==
    IF S = {} THEN 0 ELSE LET x == CHOOSE x \in S : TRUE IN f[x] + SumOver(f, S \ {x})

\* C14: with more distinct levels than binCount the domain is the binCount
\* most frequent levels, the label counts the other levels, otherCount is
\* the number of rows of the other levels, and the special values are the
\* others label if otherCount > 0, then the null label if nullCount > 0; the
\* column a,a,a,b,b,c,null with binCount 2 gives [a,b] and (1 others), (null).
C14_NominalClipping ==
    (Returned /\ Cardinality({l \in SeqToSet(LevelNames) : fnIn.counts[l] > 0}) > fnIn.binCount) =>
        LET r == fnOut[1]
            distinct == {l \in SeqToSet(LevelNames) : fnIn.counts[l] > 0}
            sum == SumOver(fnIn.counts, ExcludedLevels)
        IN  /\ Len(r.scale.domain) = fnIn.binCount
            /\ Cardinality(SeqToSet(r.scale.domain)) = fnIn.binCount
            /\ SeqToSet(r.scale.domain) \subseteq distinct
            /\ \A k \in SeqToSet(r.scale.domain), e \in ExcludedLevels :
                  fnIn.counts[k] >= fnIn.counts[e]
            /\ r.numOtherLevels = Cardinality(distinct) - fnIn.binCount
            /\ r.otherCount = sum
            /\ r.scale.specialValues =
                  (IF sum > 0 THEN <<OtherRepr(Cardinality(distinct) - fnIn.binCount)>> ELSE <<>>)
                  \o (IF fnIn.nullCount > 0 THEN <<NullRepr>> ELSE <<>>)
            /\ (fnIn = [counts |-> [l \in SeqToSet(LevelNames) |->
                                       CASE l = "a" -> 3 [] l = "b" -> 2 [] l = "c" -> 1 [] OTHER -> 0],
                        nullCount |-> 1, binCount |-> 2])
                  => /\ r.scale.domain = <<"a", "b">>
                     /\ r.scale.specialValues = <<OtherRepr(1), NullRepr>>

\* Row j comes before row i in the order of the comparators: the first
\* comparator that is not zero decides, the row index otherwise.
ComesBefore(data, orders, j, i) ==
    LET decided == {k \in 1..Len(orders) :
                       quantitativeOrder(data.columns[orders[k]][j], data.columns[orders[k]][i]) # 0}
    IN  IF decided = {} THEN j < i
        ELSE LET k == CHOOSE k \in decided : \A l \in decided : k <= l
             IN  quantitativeOrder(data.columns[orders[k]][j], data.columns[orders[k]][i]) < 0

\* C15: stack keeps the rows and, within each group of rows with the same
\* grouping-axis value taken in comparator order, replaces a finite value v by
\* [s, s + v], s being the sum of the finite values before it in the group,
\* and a non-finite value by null; the values 3, NaN, 2 of one group give
\* [0,3], null, [3,5].
C15_StackIntervals ==
    Returned =>
        LET data == fnIn.data
            r == fnOut[1]
            group(i) == {j \in 1..data.length : data.columns["x"][j] = data.columns["x"][i]}
            earlier(i) == {j \in group(i) :
                              /\ ComesBefore(data, fnIn.orders, j, i)
                              /\ IsFiniteNumber(data.columns["y"][j])}
            s(i) == SumOver([j \in 1..data.length |-> data.columns["y"][j].n], earlier(i))
        IN  /\ ~Threw(r)
            /\ r.length = data.length
            /\ r.columns["x"] = data.columns["x"]
            /\ r.columns["color"] = data.columns["color"]
            /\ \A i \in 1..data.length :
                  r.columns["y"][i] =
                      IF IsFiniteNumber(data.columns["y"][i])
                      THEN Interval(s(i), s(i) + data.columns["y"][i].n)
                      ELSE Null

\* The pair of a row: its `by` value and its combination of the columns
\* other than `by` and `field`.
PairOf(table, i) == <<table.columns["x"][i], table.columns["color"][i]>>

\* C16: completeCross returns the input rows unchanged, followed by exactly
\* one row with the default value for each pair of a distinct `by` value and a
\* distinct combination of the other columns that no input row has; every
\* such pair occurs in the result.
C16_CrossComplete ==
    Returned =>
        LET data == fnIn.data
            r == fnOut[1]
            inputPairs == {PairOf(data, i) : i \in 1..data.length}
            absent == ({p[1] : p \in inputPairs} \X {p[2] : p \in inputPairs}) \ inputPairs
            inserted == (data.length + 1)..r.length
        IN  /\ ~Threw(r)
            /\ r.length >= data.length
            /\ \A name \in DOMAIN data.columns :
                  /\ Len(r.columns[name]) = r.length
                  /\ SubSeq(r.columns[name], 1, data.length) = data.columns[name]
            /\ {PairOf(r, n) : n \in inserted} = absent
            /\ Cardinality(inserted) = Cardinality(absent)
            /\ \A n \in inserted : r.columns["y"][n] = fnIn.value

\* The finite values among the hint domain and the layers' channel data
ScaleFiniteValues ==
    FiniteNumbers(fnIn.hints.domain) \cup FiniteNumbers(fnIn.data[1]) \cup FiniteNumbers(fnIn.data[2])

C18_MergeOrderFree ==
    Returned =>
        \A r1, r2 \in fnOut[1] :
            /\ SeqToSet(r1.domain) = SeqToSet(r2.domain)
            /\ SeqToSet(r1.specialValues) = SeqToSet(r2.specialValues)
            /\ SeqToSet(r1.domain) = UNION {SeqToSet(fnIn[i].domain) : i \in 1..3}
            /\ SeqToSet(r1.specialValues) = UNION {SeqToSet(fnIn[i].specialValues) : i \in 1..3}

\* Two orders of merging give domains and special values listed differently.
C18_Witness ==
    /\ Returned
    /\ \E r1, r2 \in fnOut[1] :
          /\ r1.domain # r2.domain
          /\ r1.specialValues # r2.specialValues
          /\ Cardinality(SeqToSet(r1.domain)) = 3

\* The attributes of the layer under check that encode a field
FieldAttributes ==
    {a \in DOMAIN fnIn.encoding :
        fnIn.encoding[a].aggregate = None /\ fnIn.encoding[a].field # None}

\* Attribute a of the layer is binned with the default policy and grouped by.
DefaultBinned(r, a) ==
    /\ r.results[a].defined
    /\ r.results[a].select = Expr("bin", fnIn.encoding[a].field, DefaultBinCountPosition)
    /\ a \in r.selectEntries
    /\ r.results[a].select \in SeqToSet(r.groupBys)

\* Attribute a of the layer is a raw column reference.
RawColumn(r, a) ==
    /\ r.results[a].defined
    /\ r.results[a].select = Expr("column", fnIn.encoding[a].field, NoCount)
    /\ a \in r.selectEntries

\* The binning rule for the field encodings F of the layer
BinningRule(F) ==
    Returned =>
        LET r == fnOut[1]
        IN  IF hasAggregateOrBin(fnIn)
            THEN \A a \in F \cap {"x", "y"} :
                     ~fnIn.encoding[a].bin.defined => DefaultBinned(r, a)
            ELSE /\ \A a \in F : RawColumn(r, a)
                 /\ r.groupBys = <<>>

\* C19 as stated: in a layer with an aggregate or an explicit bin every
\* other field encoding on x or y without an explicit bin is binned with the
\* default policy and grouped by; in a layer without aggregate and bin every
\* field encoding is a raw column reference and there is no group-by.
C19_AsStated == BinningRule(FieldAttributes)

\* C19: the rule holds for every field encoding whose field has statistics,
\* that is, whose column is numeric or a string; an encoding of a field
\* without statistics is left out of the query.
C19_ImplicitBinning ==
    /\ BinningRule({a \in FieldAttributes : FieldKind[fnIn.encoding[a].field] # None})
    /\ Returned => \A a \in FieldAttributes :
                       FieldKind[fnIn.encoding[a].field] = None => a \notin fnOut[1].selectEntries

\* A count on y has the field on x binned by default and grouped by, while
\* the field on group stays a raw column.
C19_Witness ==
    /\ Returned
    /\ fnIn.encoding = [a \in {"x", "y", "group"} |->
                           CASE a = "x" -> FieldEncoding("a")
                             [] a = "y" -> AggregateEncoding("count", None)
                             [] OTHER -> FieldEncoding("s")]
    /\ fnOut[1].groupBys = <<Expr("bin", "a", DefaultBinCountPosition), Expr("column", "s", NoCount)>>

\* The layer under check opts in to the shared filter: its filter is
\* "$filter" or its custom source refers to the variable $filter.
OptsIn ==
    \/ fnIn.filter = "$filter"
    \/ fnIn.from # NoFrom /\ fromExpr(fnIn.from, "p1") # fromExpr(fnIn.from, "p2")

\* The query last issued applies the predicate of the filter.
QueryFiltered ==
    LET q == fnOut[1].query
        p == IF fnOut[1].predicate = NoPredicate THEN "(true)" ELSE fnOut[1].predicate
    IN  \/ q.where # NoPredicate
        \/ p \in SeqToSet(q.from)
        \/ fnIn.filter = "$filter" /\ fnOut[1].predicate = NoPredicate

\* C20: the query of a layer is filtered by the shared filter, and issued
\* again at every change of the filter, exactly when the layer opts in; the
\* output of a layer that does not is changed by no update of the filter.
C20_FilteredIffOptIn ==
    Returned =>
        /\ QueryFiltered <=> OptsIn
        /\ (fnOut[1].issued = 1 + fnOut[1].updates) <=> (OptsIn \/ fnOut[1].updates = 0)
        /\ ~OptsIn => fnOut[1].issued = 1 /\ fnOut[1].outputs = fnOut[1].first

\* C21: on a linear scale the bin domain [d0, d1] of a column with a finite
\* value is made of whole bins and covers the data: d0 is the lower edge
\* of the bin that holds the minimum, d1 the upper edge of the bin that
\* holds the maximum, every finite value of the column lies between them,
\* and for the column [1,2,3,4,5,100] d0 <= 1 and d1 >= 100.
C21_DomainCoversData ==
    (Returned /\ fnOut[1].stats.count > 0) =>
        LET d0 == fnOut[1].domain[1]
            d1 == fnOut[1].domain[2]
            b == fnIn.binning
            lo == fnOut[1].stats.min.n
            hi == fnOut[1].stats.max.n
        IN  /\ (d0 - b.binStart) % b.binSize = 0
            /\ (d1 - b.binStart) % b.binSize = 0
            /\ d0 <= lo /\ lo < d0 + b.binSize
            /\ d1 - b.binSize <= hi /\ hi < d1
            /\ \A i \in 1..Len(fnIn.column) :
                   IsFiniteNumber(fnIn.column[i]) => d0 <= fnIn.column[i].n /\ fnIn.column[i].n <= d1
            /\ fnIn.column = Scenario1Column => d0 <= 1 /\ d1 >= 100

C21_Witness ==
    /\ Returned
    /\ fnIn.column = Scenario1Column
    /\ fnIn.binning = [binStart |-> 0, binSize |-> 20]
    /\ fnOut[1].stats.min = Num(1) /\ fnOut[1].stats.max = Num(100)
    /\ fnOut[1].stats.countNonFinite = 0
    /\ fnOut[1].domain = <<0, 120>>

\* The bucket of a row: the rank of its level when the level is kept, the
\* others bucket, or the null bucket.
RowBucket(r) ==
    IF r.isNull THEN [kind |-> 2, rank |-> 0]
    ELSE IF r.text \in SeqToSet(fnOut[1].info.scale.domain)
         THEN [kind |-> 0, rank |-> indexOf(fnOut[1].info.scale.domain, r.text)]
         ELSE [kind |-> 1, rank |-> 0]

BucketBefore(b1, b2) == b1.kind < b2.kind \/ (b1.kind = b2.kind /\ b1.rank < b2.rank)

\* C22: the order of a nominal aggregate is a strict total order on the
\* displayed values: two distinct displayed values never compare as equal,
\* the comparison is antisymmetric and transitive, and the value displayed
\* for a kept level comes before that of a kept level of lower frequency
\* rank, before the others label and before the null label, and the others
\* label before the null label.
C22_NominalOrder ==
    Returned =>
        LET rows == DOMAIN fnOut[1].shown
            shown == fnOut[1].shown
            values == {shown[r] : r \in rows}
            ord == fnOut[1].order
        IN  /\ \A a, b \in values : (ord[<<a, b>>] = 0) <=> (a = b)
            /\ \A a, b \in values : (ord[<<a, b>>] < 0) <=> (ord[<<b, a>>] > 0)
            /\ \A a, b, c \in values : (ord[<<a, b>>] < 0 /\ ord[<<b, c>>] < 0) => ord[<<a, c>>] < 0
            /\ \A r1, r2 \in rows :
                   BucketBefore(RowBucket(r1), RowBucket(r2)) => ord[<<shown[r1], shown[r2]>>] < 0

\* C23: two persisted states that differ only in their predicate load to
\* the same charts, chart states, layout, layout states and shared-filter
\* content, and the predicate of the state emitted afterwards is the
\* rendering of the shared filter, whatever predicate was loaded.
C23_PredicateNeverRead ==
    Returned =>
        LET a == fnOut[1].a
            b == fnOut[1].b
        IN  /\ a.charts = b.charts
            /\ a.chartStates = b.chartStates
            /\ a.layout = b.layout
            /\ a.layoutStates = b.layoutStates
            /\ crossFilterClauses(a) = crossFilterClauses(b)
            /\ fnOut[1].emitted # <<>> =>
                   /\ fnOut[1].emitted[1] = fnOut[1].emitted[2]
                   /\ fnOut[1].emitted[1].predicate.v.terms =
                          {s.id : s \in {t \in a.chartStates : t.id \in a.charts /\ t.value # "null"}}

C23_Witness ==
    /\ Returned
    /\ fnIn[1].version.present
    /\ fnIn[1].predicate = Present(PredicateText({"2"}))
    /\ fnIn[2].predicate = Absent
    /\ fnOut[1].a.charts = {"1", "2"}
    /\ crossFilterClauses(fnOut[1].a) = {"1"}
    /\ fnOut[1].emitted # <<>>
    /\ fnOut[1].emitted[1].predicate = Present(PredicateText({"1"}))

\* The column has a chart in the list: its own, or the chart that overrides it
HasChart(item) ==
    \E i \in 1..Len(fnOut[1]) :
        \/ fnOut[1][i].type \in {"count-plot", "count-plot-list", "histogram"} /\ fnOut[1][i].field = item.name
        \/ fnOut[1][i] = OverrideSpec /\ item.name = "a" /\ fnIn.config.override.present

\* C24: with include given, every column it lists that has a supported
\* type, more than one distinct value and no null override has a chart in
\* the list of default charts, whether or not exclude lists it too.
C24_IncludeOverridesExclude ==
    (Returned /\ fnIn.config.include.present) =>
        \A i \in 1..Len(VisibleColumns(fnIn.table)) :
            LET item == VisibleColumns(fnIn.table)[i]
            IN  (/\ item.name \in fnIn.config.include.v
                 /\ item.jsType \in {"string", "string[]", "number"}
                 /\ item.distinct > 1
                 /\ ~(item.name = "a" /\ fnIn.config.override = Present("null")))
                    => HasChart(item)

\* A cell of the rectangle is marked occupied in the map
RectOccupied(map, x, y, width, height) ==
    \E cx \in x..(x + width - 1), cy \in y..(y + height - 1) : getBit(map, cx, cy)

\* C25: check(x, y, width, height) returns true if and only if at least one
\* cell of the rectangle is marked occupied.
C25_CheckTrueIffOccupied ==
    (Returned /\ fnOut[1].call.op = "check") =>
        LET c == fnOut[1].call
        IN  c.ok <=> RectOccupied(fnOut[1].map, c.x, c.y, c.width, c.height)

\* C26: after any calls of fill and set, find(width, height) with
\* 1 <= width <= numColumns and height >= 1 returns a place (x, y) with
\* x >= 0 and x + width <= numColumns where no cell of the rectangle of
\* that size is occupied.
C26_FindGivesFreeRect ==
    (Returned /\ fnOut[1].call.op = "find") =>
        LET c == fnOut[1].call
        IN  /\ c.x >= 0
            /\ c.x + c.width <= fnOut[1].map.numColumns
            /\ ~RectOccupied(fnOut[1].map, c.x, c.y, c.width, c.height)

\* C27: while a spec is active, an outputs store and a selections store
\* that are not undefined hold what the build of a spec with the content of
\* the active spec computed.
C27_StoresOfActiveSpec ==
    spec # None =>
        /\ outputs.defined => ContentOf[builds[outputs.build].spec] = ContentOf[spec]
        /\ selections # 0 => ContentOf[builds[selections].spec] = ContentOf[spec]

\* C28: the predicate of a displayed bucket of a quantitative aggregate
\* selects exactly the rows that the bin expression gives that bucket: for
\* an interval [lo, hi) the values v with lo <= v < hi, for "n/a" the
\* values the bin expression maps to null.
C28_PredicateSelectsBucket ==
    Returned =>
        \A v \in DOMAIN fnOut[1].selected :
            /\ fnOut[1].selected[v] = {x \in fnIn.column : fnOut[1].bucket[x] = v}
            /\ v.t = "interval" =>
                   fnOut[1].selected[v] = {x \in fnIn.column : IsFiniteNumber(x) /\ v.n <= x.n /\ x.n < v.m}

\* The values of a selection
Selected(selection) == IF selection.isNull THEN {} ELSE SeqToSet(selection.items)

\* C29: the selection of a count plot and of a list count plot never holds
\* a value twice, and a shift-click changes whether the clicked value is
\* selected and leaves every other value as it was.
C29_ToggleKeepsSet ==
    [][\A c \in CountCharts :
          /\ Cardinality(Selected(bsel'[c])) = (IF bsel'[c].isNull THEN 0 ELSE Len(bsel'[c].items))
          /\ (lastOp'.name = "countToggle" /\ lastOp'.chart = c /\ lastOp'.flag) =>
                 /\ Selected(bsel'[c]) \ {lastOp'.arg} = Selected(bsel[c]) \ {lastOp'.arg}
                 /\ (lastOp'.arg \in Selected(bsel'[c])) <=> (lastOp'.arg \notin Selected(bsel[c]))]_vars

C29_Witness ==
    /\ lastOp.name = "countToggle" /\ lastOp.flag /\ lastOp.chart = "cl" /\ lastOp.arg = "y"
    /\ bsel["cl"] = [isNull |-> FALSE, items |-> <<"x">>]

\* C30: in every list-layout state, one with unset properties included,
\* the checked state of each toggle button shown equals the visibility the
\* list layout gives the section, and a click on a toggle has changed the
\* visibility of its section.
C30_ToggleShowsVisibility ==
    Returned =>
        /\ \A section \in LayoutSections :
               toggleShown(fnIn.sections, section) =>
                   toggleChecked(fnOut[1].state, section)
                       = sectionVisible(fnIn.sections, fnOut[1].state, section)
        /\ fnOut[1].clicked # "none" =>
               sectionVisible(fnIn.sections, fnOut[1].state, fnOut[1].clicked) # fnOut[1].wasVisible

====
